---- MODULE Spec2Model ----
(***************************************************************************)
(* Model of the TrueNAS Ansible modules under plugins/modules.             *)
(*                                                                         *)
(* Every module is a one-shot program: main() reads the remote table of    *)
(* its resource through the middleware, decides, and issues at most one    *)
(* mutating call.  A behaviour of the model is: a remote table, one run of *)
(* main() of one module (action per module), and optionally a second run   *)
(* with the very same parameters (action Repeat).                          *)
(*                                                                         *)
(* Representation.                                                         *)
(*   - a Python dict is a function with a string domain; a parameter that  *)
(*     is None (not supplied) is a key that is not in the domain;          *)
(*   - a dict whose key order matters to the code (the elements of the     *)
(*     portal listen list and of the target groups list, which the code    *)
(*     turns into sorted tuples of items) is a sequence of <<key, value>>  *)
(*     pairs in insertion order;                                           *)
(*   - an extent or target name is a sequence of one-character strings,    *)
(*     so that str.strip() is computed and not assumed;                    *)
(*   - an optional record (x[0] if x else None) is a sequence of length    *)
(*     zero or one.                                                        *)
(***************************************************************************)
EXTENDS Integers, Sequences, FiniteSets, TLC

VARIABLES
    mod,      \* the module whose main() this behaviour runs
    remote,   \* the remote table of that module's resource (query order)
    groups,   \* the remote group table (read by the user module only)
    last      \* the run of main(): its parameters, calls and outcome

vars == <<mod, remote, groups, last>>

(***************************************************************************)
(* Bounds of the model.                                                    *)
(***************************************************************************)
MaxRecords == 2      \* records in the remote table before the run
MaxListen == 2       \* elements of a listen list (listen specification)
MaxSupplied == 2     \* optional fields supplied to one run of the user module

NoId == -1           \* "no id" in a recorded call (config update, list query)

Ids == 0 .. MaxRecords

(***************************************************************************)
(* Dict helpers.                                                           *)
(***************************************************************************)
EmptyDict == <<>>

Has(d, k) == k \in DOMAIN d

\* a comparison that never finds a difference
GetDiffers_never(d, k, v) == FALSE

\* d.get(k) != v, for a v that is not None
GetDiffers(d, k, v) == IF Has(d, k) THEN d[k] /= v ELSE TRUE

\* the dict d restricted to the keys in ks
Restrict(d, ks) == [k \in (DOMAIN d) \cap ks |-> d[k]]

\* {} or {k: v} for v in S: a parameter that may be left out
\* a required-field test that lets everything through
MissingRequired_never(p, req) == FALSE

\* params[f] is None for one of the fields a create needs
MissingRequired(p, req) == \E f \in req : ~Has(p, f)

Opt(k, S) == {EmptyDict} \cup {k :> v : v \in S}

Cross(A, B) == {a @@ b : a \in A, b \in B}

RECURSIVE SeqsUpTo(_, _)
SeqsUpTo(S, n) ==
    IF n = 0 THEN {<<>>}
    ELSE LET shorter == SeqsUpTo(S, n - 1)
         IN shorter \cup {Append(s, x) : s \in {t \in shorter : Len(t) = n - 1}, x \in S}

(***************************************************************************)
(* The middleware (plugins/module_utils/middleware.py, MiddleWare.call).   *)
(* A call is recorded as [op, id, body].  With env = "qfail" the query     *)
(* raises, with env = "mfail" the mutating call raises and the remote      *)
(* keeps its state, with env = "gfail" (user module) group.query raises.   *)
(* A successful create stores the payload under a fresh                    *)
(* id (with the remote's defaults for the keys the payload leaves out), a  *)
(* successful update overwrites the patched keys, a delete removes the     *)
(* record.                                                                 *)
(***************************************************************************)
Envs == {"ok", "qfail", "mfail"}

\* the user module makes a second kind of query, which may fail on its own
UserEnvs == Envs \cup {"gfail"}

Call(op, id, body) == [op |-> op, id |-> id, body |-> body]

MutatingOps == {"create", "update", "delete"}

IsMutating(c) == c.op \in MutatingOps

RECURSIVE MaxIdOf(_)
MaxIdOf(tab) ==
    IF tab = <<>> THEN 0
    ELSE LET m == MaxIdOf(Tail(tab))
         IN IF Head(tab).id > m THEN Head(tab).id ELSE m

ApplyCall(tab, c, defaults) ==
    CASE c.op = "create" ->
            Append(tab, ("id" :> (MaxIdOf(tab) + 1)) @@ c.body @@ defaults)
      [] c.op = "update" ->
            [i \in DOMAIN tab |->
                IF c.id = NoId \/ tab[i].id = c.id THEN c.body @@ tab[i] ELSE tab[i]]
      [] c.op = "delete" -> SelectSeq(tab, LAMBDA r : r.id /= c.id)
      [] OTHER -> tab

RECURSIVE ApplyCalls(_, _, _)
ApplyCalls(tab, cs, defaults) ==
    IF cs = <<>> THEN tab
    ELSE ApplyCalls(ApplyCall(tab, Head(cs), defaults), Tail(cs), defaults)

\* mw.call("<resource>.query", [["id", "=", i]])
QueryById(tab, i) == SelectSeq(tab, LAMBDA r : r.id = i)

(***************************************************************************)
(* Outcome of a run: module.exit_json or module.fail_json.                 *)
(* ret is what the result carries besides changed and msg: nothing, the    *)
(* record as read ("existing"), the value returned by the mutating call    *)
(* ("call") or a list of records ("list").                                 *)
(***************************************************************************)
NoRet == [kind |-> "none", val |-> <<>>]
RetExisting(e) == [kind |-> "existing", val |-> <<e>>]
RetCall == [kind |-> "call", val |-> <<>>]
RetList(l) == [kind |-> "list", val |-> l]

exit_json(changed, msg, calls, ret) ==
    [failed |-> FALSE, changed |-> changed, msg |-> msg, calls |-> calls, ret |-> ret]

fail_json(msg, calls) ==
    [failed |-> TRUE, changed |-> FALSE, msg |-> msg, calls |-> calls, ret |-> NoRet]

\* an exception that no handler catches: the run ends without exit_json or
\* fail_json and the task is reported as failed
raise_TypeError(calls) ==
    [failed |-> TRUE, changed |-> FALSE, msg |-> "TypeError", calls |-> calls, ret |-> NoRet]

\* a mutating call whose success is reported as a failure
Mutate_failing_after(inv, reads, c, okmsg, failmsg, ret) ==
    fail_json(failmsg, Append(reads, c))

\* a mutating call whose success is not reported in the changed flag
Mutate_unreported(inv, reads, c, okmsg, failmsg, ret) ==
    IF inv.env = "mfail" THEN fail_json(failmsg, Append(reads, c))
    ELSE exit_json(FALSE, okmsg, Append(reads, c), ret)

\* a mutating call that is made a second time when it raised
Mutate_retrying(inv, reads, c, okmsg, failmsg, ret) ==
    IF inv.env = "mfail" THEN fail_json(failmsg, Append(Append(reads, c), c))
    ELSE exit_json(TRUE, okmsg, Append(reads, c), ret)

\* try: mw.call(<mutating call>) ... except Exception as e: module.fail_json(...)
Mutate(inv, reads, c, okmsg, failmsg, ret) ==
    IF inv.env = "mfail" THEN fail_json(failmsg, Append(reads, c))
    ELSE exit_json(TRUE, okmsg, Append(reads, c), ret)

\* CheckOrMutate whose check mode reports no change
CheckOrMutate_silent(inv, wouldmsg, reads, c, okmsg, failmsg, ret) ==
    IF inv.check THEN exit_json(FALSE, wouldmsg, reads, NoRet)
    ELSE Mutate(inv, reads, c, okmsg, failmsg, ret)

\* CheckOrMutate without the check_mode test
CheckOrMutate_unconditional(inv, wouldmsg, reads, c, okmsg, failmsg, ret) ==
    Mutate(inv, reads, c, okmsg, failmsg, ret)

\* if module.check_mode: result["changed"] = True  else: the mutating call
CheckOrMutate(inv, wouldmsg, reads, c, okmsg, failmsg, ret) ==
    IF inv.check THEN exit_json(TRUE, wouldmsg, reads, NoRet)
    ELSE Mutate(inv, reads, c, okmsg, failmsg, ret)

\* a delete whose error is swallowed
Delete_swallowing_errors(inv, reads, c) ==
    IF inv.check THEN exit_json(TRUE, "would delete", reads, NoRet)
    ELSE exit_json(TRUE, "deleted", Append(reads, c), NoRet)

\* the delete branch: check mode reports the change, else the delete call in
\* try/except, then result["changed"] = True
Delete(inv, reads, c) ==
    CheckOrMutate(inv, "would delete", reads, c, "deleted", "error deleting", NoRet)

(***************************************************************************)
(* Python's order on the strings that the code sorts.                      *)
(***************************************************************************)
StrOrder ==
    << "/bin/cat", "/bin/ls", "0.0.0.0", "10.0.0.1", "::", "CHAP", "NONE",
       "auth", "authmethod", "initiator", "ip", "port", "portal" >>

StrRank(s) == CHOOSE i \in DOMAIN StrOrder : StrOrder[i] = s

IntValuedKeys == {"port", "portal", "initiator", "auth"}

\* None under a key: a suboption the caller left out, a null the remote stores
NoneVal(k) == IF k \in IntValuedKeys THEN -1 ELSE "None"

IsNone(a) == a[2] = NoneVal(a[1])

\* (k1, v1) < (k2, v2) raises TypeError: same key, one value None, the other not
PairRaises(a, b) == a[1] = b[1] /\ (IsNone(a) /= IsNone(b))

\* (k1, v1) < (k2, v2) on dict items
PairLess(a, b) ==
    IF a[1] /= b[1] THEN StrRank(a[1]) < StrRank(b[1])
    ELSE IF a[1] \in IntValuedKeys THEN a[2] < b[2]
    ELSE StrRank(a[2]) < StrRank(b[2])

PairEq(a, b) == a[1] = b[1] /\ a[2] = b[2]

\* tuple < tuple, on tuples of dict items
RECURSIVE TupleLess(_, _)
TupleLess(s, t) ==
    IF s = <<>> THEN t /= <<>>
    ELSE IF t = <<>> THEN FALSE
    ELSE IF PairEq(Head(s), Head(t)) THEN TupleLess(Tail(s), Tail(t))
    ELSE PairLess(Head(s), Head(t))

\* tuple < tuple raises TypeError: the first items that differ do
RECURSIVE TupleRaises(_, _)
TupleRaises(s, t) ==
    IF s = <<>> \/ t = <<>> THEN FALSE
    ELSE IF PairEq(Head(s), Head(t)) THEN TupleRaises(Tail(s), Tail(t))
    ELSE PairRaises(Head(s), Head(t))

RECURSIVE InsertPair(_, _)
InsertPair(x, s) ==
    IF s = <<>> THEN <<x>>
    ELSE IF PairLess(Head(s), x) THEN <<Head(s)>> \o InsertPair(x, Tail(s))
    ELSE <<x>> \o s

\* sorted(item.items())
RECURSIVE SortPairs(_)
SortPairs(s) == IF s = <<>> THEN <<>> ELSE InsertPair(Head(s), SortPairs(Tail(s)))

RECURSIVE InsertTuple(_, _)
InsertTuple(x, s) ==
    IF s = <<>> THEN <<x>>
    ELSE IF TupleLess(Head(s), x) THEN <<Head(s)>> \o InsertTuple(x, Tail(s))
    ELSE <<x>> \o s

RECURSIVE SortTuples(_)

\* a comparison made while inserting x raises TypeError
RECURSIVE InsertRaises(_, _)
InsertRaises(x, s) ==
    /\ s /= <<>>
    /\ \/ TupleRaises(Head(s), x)
       \/ TupleLess(Head(s), x) /\ InsertRaises(x, Tail(s))

\* normalized.sort() raises TypeError
RECURSIVE SortRaises(_)
SortRaises(s) ==
    /\ s /= <<>>
    /\ \/ SortRaises(Tail(s))
       \/ InsertRaises(Head(s), SortTuples(Tail(s)))

\* normalized.sort()
SortTuples(s) == IF s = <<>> THEN <<>> ELSE InsertTuple(Head(s), SortTuples(Tail(s)))

(***************************************************************************)
(* iscsi_portal.py                                                         *)
(***************************************************************************)
\* a lookup that takes the portal to exist whatever the query returned
get_portal_by_id_assumed(pid, tab) == <<[id |-> pid]>>

\* portals = mw.call("iscsi.portal.query", [["id", "=", pid]])
get_portal_by_id(pid, tab) == QueryById(tab, pid)

\* StripPort that copies every key
StripPort_keeping_port(item) == item

\* the item copy without the "port" key
StripPort(item) == SelectSeq(item, LAMBDA kv : kv[1] /= "port")

normalize_list_of_dicts(lst) ==
    IF lst = <<>> THEN <<>>
    ELSE SortTuples([i \in DOMAIN lst |-> SortPairs(StripPort(lst[i]))])

PortalScalarFields == {"comment", "discovery_authmethod", "discovery_authgroup"}

DefaultListen == << << <<"ip", "0.0.0.0">> >> >>

PortalCreatePayload(p) ==
    Restrict(p, PortalScalarFields)
    @@ ("listen" :> (IF Has(p, "listen") THEN p.listen ELSE DefaultListen))

\* a patch that takes the list in the form it was compared in
ListenPatchValue_normalized(desired, normal) == normal

\* updates["listen"] = p["listen"]: the list as supplied, not desired_listen_norm
ListenPatchValue(desired, normal) == desired

PortalUpdates(p, existing) ==
    [k \in {f \in PortalScalarFields : Has(p, f) /\ GetDiffers(existing, f, p[f])}
        |-> p[k]]
    @@ (IF /\ Has(p, "listen")
           /\ normalize_list_of_dicts(IF Has(existing, "listen") THEN existing.listen ELSE <<>>)
                /= normalize_list_of_dicts(p.listen)
        THEN "listen" :> ListenPatchValue(p.listen, normalize_list_of_dicts(p.listen))
        ELSE EmptyDict)

\* an id that matches no portal treated as no id: the portal is created
PortalNotFound_creates(inv, p, reads) ==
    CheckOrMutate(inv, "would create", reads, Call("create", NoId, PortalCreatePayload(p)),
                "created", "error creating", RetCall)

\* if not existing: module.fail_json("No portal found with id=...; cannot update.")
PortalNotFound(inv, p, reads) == fail_json("not found", reads)

PortalMain(inv, tab) ==
    LET p == inv.p
        reads == <<Call("query", p.id, EmptyDict)>>
        portals == get_portal_by_id(p.id, tab)
    IN  IF inv.state = "absent" THEN
            IF ~Has(p, "id") THEN fail_json("id is required", <<>>)
            ELSE IF inv.env = "qfail" THEN fail_json("error querying", reads)
            ELSE IF portals = <<>> THEN exit_json(FALSE, "nothing to delete", reads, NoRet)
            ELSE Delete(inv, reads, Call("delete", p.id, EmptyDict))
        ELSE IF ~Has(p, "id") THEN
            CheckOrMutate(inv, "would create", <<>>, Call("create", NoId, PortalCreatePayload(p)),
                        "created", "error creating", RetCall)
        ELSE IF inv.env = "qfail" THEN fail_json("error querying", reads)
        ELSE IF portals = <<>> THEN PortalNotFound(inv, p, reads)
        ELSE LET existing == portals[1]
                 updates == PortalUpdates(p, existing)
             IN  IF updates = EmptyDict
                 THEN exit_json(FALSE, "no changes needed", reads, RetExisting(existing))
                 ELSE CheckOrMutate(inv, "would update", reads, Call("update", p.id, updates),
                             "updated", "error updating", RetCall)

(***************************************************************************)
(* iscsi_initiator.py                                                      *)
(***************************************************************************)
find_initiator_by_id(iid, tab) == QueryById(tab, iid)

\* the list compared as it is, duplicates and order included
ToSet_as_list(lst) == lst

\* set(lst)
ToSet(lst) == {lst[i] : i \in DOMAIN lst}

InitiatorSetFields == {"initiators", "auth_network"}

InitiatorFields == InitiatorSetFields \cup {"comment"}

InitiatorUpdates(p, existing) ==
    [k \in {f \in InitiatorFields :
                /\ Has(p, f)
                /\ IF f \in InitiatorSetFields
                   THEN ToSet(p[f]) /= ToSet(existing[f])
                   ELSE p[f] /= existing[f]}
        |-> p[k]]

InitiatorMain(inv, tab) ==
    LET p == inv.p
        \* "if initiator_id:" is false for None and for 0
        truthy_id == Has(p, "id") /\ p.id /= 0
        reads == IF truthy_id THEN <<Call("query", p.id, EmptyDict)>> ELSE <<>>
        found == IF truthy_id THEN find_initiator_by_id(p.id, tab) ELSE <<>>
    IN  IF truthy_id /\ inv.env = "qfail" THEN fail_json("error querying", reads)
        ELSE IF inv.state = "query" THEN
            IF ~truthy_id THEN fail_json("id is required", reads)
            ELSE IF found /= <<>> THEN exit_json(FALSE, "", reads, RetExisting(found[1]))
            ELSE fail_json("not found", reads)
        ELSE IF inv.state = "absent" THEN
            IF ~truthy_id THEN fail_json("id is required", reads)
            ELSE IF found = <<>> THEN exit_json(FALSE, "does not exist", reads, NoRet)
            ELSE Delete(inv, reads, Call("delete", p.id, EmptyDict))
        ELSE IF found /= <<>> THEN
            LET existing == found[1]
                updates == InitiatorUpdates(p, existing)
            IN  IF updates = EmptyDict
                THEN exit_json(FALSE, "no changes needed", reads, RetExisting(existing))
                ELSE CheckOrMutate(inv, "would update", reads, Call("update", p.id, updates),
                            "updated", "error updating", RetCall)
        ELSE CheckOrMutate(inv, "would create", reads, Call("create", NoId, Restrict(p, InitiatorFields)),
                    "created", "error creating", RetCall)

(***************************************************************************)
(* iscsi_auth.py                                                           *)
(***************************************************************************)
SecretMinLen == 12
SecretMaxLen == 16

\* a lookup that returns the table, whatever the id
find_auth_by_id_unfiltered(auth_id, tab) == tab

find_auth_by_id(auth_id, tab) == QueryById(tab, auth_id)

AuthFields == {"tag", "user", "secret", "peeruser", "peersecret"}

\* the fields a create needs
AuthCreateRequired == {"tag", "user", "secret"}

\* a non-empty string: the truth value of a str parameter
Truthy(p, k) == Has(p, k) /\ p[k] /= ""

SecretLenOk(s) == SecretMinLen <= Len(s) /\ Len(s) <= SecretMaxLen

\* the message of the failed validation, or "" when the secrets pass
AuthValidate(p) ==
    IF Truthy(p, "secret") /\ ~SecretLenOk(p.secret) THEN "secret must be 12-16 characters"
    ELSE IF Truthy(p, "peersecret") /\ ~SecretLenOk(p.peersecret)
        THEN "peersecret must be 12-16 characters"
    ELSE IF Truthy(p, "peersecret") /\ Truthy(p, "secret") /\ p.peersecret = p.secret
        THEN "peersecret must not match secret"
    ELSE ""

AuthUpdates(p, existing) ==
    [k \in {f \in AuthFields : Has(p, f) /\ GetDiffers(existing, f, p[f])} |-> p[k]]

AuthMain(inv, tab) ==
    LET p == inv.p
        hasid == Has(p, "id")
        \* "if not record_id" is true for None and for 0
        falsy_id == ~hasid \/ p.id = 0
        reads == IF hasid THEN <<Call("query", p.id, EmptyDict)>> ELSE <<>>
        found == IF hasid THEN find_auth_by_id(p.id, tab) ELSE <<>>
    IN  IF hasid /\ inv.env = "qfail" THEN fail_json("error querying", reads)
        ELSE IF inv.state = "query" THEN
            IF falsy_id THEN fail_json("id is required", reads)
            ELSE IF found /= <<>> THEN exit_json(FALSE, "", reads, RetExisting(found[1]))
            ELSE fail_json("not found", reads)
        ELSE IF inv.state = "absent" THEN
            IF falsy_id THEN fail_json("id is required", reads)
            ELSE IF found = <<>> THEN exit_json(FALSE, "does not exist", reads, NoRet)
            ELSE Delete(inv, reads, Call("delete", p.id, EmptyDict))
        ELSE IF AuthValidate(p) /= "" THEN fail_json(AuthValidate(p), reads)
        ELSE IF found /= <<>> THEN
            LET existing == found[1]
                to_update == AuthUpdates(p, existing)
            IN  IF to_update = EmptyDict
                THEN exit_json(FALSE, "no changes needed", reads, RetExisting(existing))
                ELSE CheckOrMutate(inv, "would update", reads, Call("update", p.id, to_update),
                            "updated", "error updating", RetCall)
        ELSE IF MissingRequired(p, AuthCreateRequired)
            THEN fail_json("tag, user, and secret are required", reads)
        ELSE CheckOrMutate(inv, "would create", reads, Call("create", NoId, Restrict(p, AuthFields)),
                    "created", "error creating", RetCall)

(***************************************************************************)
(* iscsi_targetextent.py                                                   *)
(***************************************************************************)
find_assoc_by_id(aid, tab) == QueryById(tab, aid)

\* the fields a create needs
TargetExtentCreateRequired == {"target", "extent"}

TargetExtentFields == {"target", "lunid", "extent"}

TargetExtentUpdates(p, existing) ==
    [k \in {f \in TargetExtentFields : Has(p, f) /\ existing[f] /= p[f]} |-> p[k]]

\* argument_spec: force=dict(type="bool", default=False)
TargetExtentArgDefaults == [force |-> FALSE]

TargetExtentMain(inv, tab) ==
    LET p == inv.p @@ TargetExtentArgDefaults
        \* "if assoc_id:" is false for None and for 0
        truthy_id == Has(p, "id") /\ p.id /= 0
        reads == IF truthy_id THEN <<Call("query", p.id, EmptyDict)>> ELSE <<>>
        found == IF truthy_id THEN find_assoc_by_id(p.id, tab) ELSE <<>>
    IN  IF truthy_id /\ inv.env = "qfail" THEN fail_json("error querying", reads)
        ELSE IF inv.state = "absent" THEN
            IF ~truthy_id THEN fail_json("id is required", reads)
            ELSE IF found = <<>> THEN exit_json(FALSE, "does not exist", reads, NoRet)
            ELSE Delete(inv, reads, Call("delete", p.id, "force" :> p.force))
        ELSE IF found /= <<>> THEN
            LET existing == found[1]
                updates == TargetExtentUpdates(p, existing)
            IN  IF updates = EmptyDict
                THEN exit_json(FALSE, "no changes needed", reads, RetExisting(existing))
                ELSE CheckOrMutate(inv, "would update", reads, Call("update", p.id, updates),
                            "updated", "error updating", RetCall)
        ELSE IF MissingRequired(p, TargetExtentCreateRequired)
            THEN fail_json("target and extent are required", reads)
        ELSE CheckOrMutate(inv, "would create", reads, Call("create", NoId, Restrict(p, TargetExtentFields)),
                    "created", "error creating", RetCall)

(***************************************************************************)
(* iscsi_extent.py                                                         *)
(***************************************************************************)
Whitespace == {" ", "\t"}

RECURSIVE LStrip(_)
LStrip(s) == IF s /= <<>> /\ Head(s) \in Whitespace THEN LStrip(Tail(s)) ELSE s

RECURSIVE RStrip(_)
RStrip(s) ==
    IF s /= <<>> /\ s[Len(s)] \in Whitespace THEN RStrip(SubSeq(s, 1, Len(s) - 1)) ELSE s

\* str.strip()
Strip(s) == RStrip(LStrip(s))

\* argument_spec: remove and force default to False
ExtentArgDefaults == [remove |-> FALSE, force |-> FALSE]

\* the fields maybe_update is called on, in the order of the calls
ExtentUpdateFields ==
    << "name", "type", "disk", "path", "filesize", "blocksize", "pblocksize",
       "avail_threshold", "comment", "insecure_tpc", "xen", "rpm", "ro", "enabled" >>

\* the optional fields copied into the create payload
ExtentCreateFields ==
    << "disk", "path", "filesize", "blocksize", "pblocksize", "avail_threshold",
       "comment", "insecure_tpc", "xen", "rpm", "ro", "enabled" >>

\* name = params["name"].strip() if params["name"] else None, as an optional value
ExtentName(p) == IF Has(p, "name") /\ p.name /= <<>> THEN <<Strip(p.name)>> ELSE <<>>

\* "if name:" / "if not name:"
NameTruthy(optname) == optname /= <<>> /\ optname[1] /= <<>>

\* find_by_id that returns the first extent, whatever its id
find_by_id_first(eid, extents) ==
    IF extents = <<>> THEN <<>> ELSE <<extents[1]>>

find_by_id(eid, extents) ==
    LET hits == SelectSeq(extents, LAMBDA e : e.id = eid)
    IN  IF hits = <<>> THEN <<>> ELSE <<hits[1]>>

\* find_by_name that stops at the first match
find_by_name_first_only(ext_name, extents) ==
    LET hits == SelectSeq(extents,
                    LAMBDA e : Has(e, "name") /\ e.name /= <<>> /\ Strip(e.name) = ext_name)
    IN  IF hits = <<>> THEN <<>> ELSE <<hits[1]>>

find_by_name(ext_name, extents) ==
    SelectSeq(extents,
        LAMBDA e : (IF Has(e, "name") /\ e.name /= <<>> THEN <<Strip(e.name)>> ELSE <<>>)
                   = <<ext_name>>)

\* maybe_update(key) for every key: the keys that end up in updates
maybe_update(p, existing) ==
    [k \in {ExtentUpdateFields[i] : i \in
                {j \in DOMAIN ExtentUpdateFields :
                    /\ Has(p, ExtentUpdateFields[j])
                    /\ GetDiffers(existing, ExtentUpdateFields[j], p[ExtentUpdateFields[j]])}}
        |-> p[k]]

ExtentCreatePayload(p, name) ==
    [name |-> name, type |-> p.type]
    @@ Restrict(p, {ExtentCreateFields[i] : i \in DOMAIN ExtentCreateFields})

ExtentMain(inv, tab) ==
    LET p == inv.p @@ ExtentArgDefaults
        optname == ExtentName(p)
        reads == <<Call("query", NoId, EmptyDict)>>
        matches == find_by_name(optname[1], tab)
        byid == find_by_id(p.id, tab)
    IN  IF inv.env = "qfail" THEN fail_json("error listing", reads)
        ELSE IF inv.state = "absent" THEN
            IF ~Has(p, "id") /\ NameTruthy(optname) /\ Len(matches) > 1
            THEN fail_json("multiple found", reads)
            ELSE LET found == IF Has(p, "id") THEN byid
                              ELSE IF NameTruthy(optname) /\ Len(matches) = 1 THEN matches
                              ELSE <<>>
                 IN  IF found = <<>> THEN exit_json(FALSE, "does not exist", reads, NoRet)
                     ELSE Delete(inv, reads, Call("delete", found[1].id, [remove |-> p.remove, force |-> p.force]))
        ELSE IF ~Has(p, "id") /\ ~NameTruthy(optname)
            THEN fail_json("must provide id or name", reads)
        ELSE IF ~Has(p, "id") /\ Len(matches) > 1 THEN fail_json("multiple found", reads)
        ELSE LET found == IF Has(p, "id") THEN byid
                          ELSE IF Len(matches) = 1 THEN matches ELSE <<>>
             IN  IF found /= <<>> THEN
                     LET existing == found[1]
                         updates == maybe_update(p, existing)
                     IN  IF updates = EmptyDict
                         THEN exit_json(FALSE, "up-to-date", reads, RetExisting(existing))
                         ELSE CheckOrMutate(inv, "would update", reads, Call("update", existing.id, updates),
                                     "updated", "error updating", RetCall)
                 ELSE IF ~NameTruthy(optname) THEN fail_json("name is required", reads)
                 ELSE IF ~Has(p, "type") THEN fail_json("type is required", reads)
                 ELSE CheckOrMutate(inv, "would create", reads,
                             Call("create", NoId, ExtentCreatePayload(p, optname[1])),
                             "created", "error creating", RetCall)

(***************************************************************************)
(* iscsi_target.py                                                         *)
(***************************************************************************)
find_target_by_id(ident, all_targets) ==
    LET hits == SelectSeq(all_targets, LAMBDA t : t.id = ident)
    IN  IF hits = <<>> THEN <<>> ELSE <<hits[1]>>

\* (t["name"] or "") == (n or "")
\* find_targets_by_name keeping only the first match
find_targets_by_name_first_only(n, all_targets) ==
    LET hits == SelectSeq(all_targets,
                    LAMBDA t : (IF Has(t, "name") THEN t.name ELSE <<>>) = n)
    IN  IF hits = <<>> THEN <<>> ELSE <<hits[1]>>

find_targets_by_name(n, all_targets) ==
    SelectSeq(all_targets, LAMBDA t : (IF Has(t, "name") THEN t.name ELSE <<>>) = n)

normalize_groups(grp_list) ==
    IF grp_list = <<>> THEN <<>>
    ELSE SortTuples([i \in DOMAIN grp_list |-> SortPairs(grp_list[i])])

\* normalize_groups(grp_list) raises TypeError in normalized.sort()
normalize_groups_raises(grp_list) ==
    /\ grp_list /= <<>>
    /\ SortRaises([i \in DOMAIN grp_list |-> SortPairs(grp_list[i])])

TargetScalarFields == {"name", "alias", "mode"}

TargetUpdates(p, existing) ==
    [k \in {f \in TargetScalarFields : Has(p, f) /\ GetDiffers(existing, f, p[f])}
        |-> p[k]]
    @@ (IF /\ Has(p, "groups")
           /\ normalize_groups(IF Has(existing, "groups") THEN existing.groups ELSE <<>>)
                /= normalize_groups(p.groups)
        THEN "groups" :> p.groups
        ELSE EmptyDict)

TargetMain(inv, tab) ==
    LET p == inv.p
        \* "if name:" / "if not name:"
        truthy_name == Has(p, "name") /\ p.name /= <<>>
        reads == <<Call("query", NoId, EmptyDict)>>
        matches == find_targets_by_name(p.name, tab)
        byid == find_target_by_id(p.id, tab)
    IN  IF inv.env = "qfail" THEN fail_json("error listing", reads)
        ELSE IF inv.state = "absent" THEN
            IF ~Has(p, "id") /\ truthy_name /\ Len(matches) > 1
            THEN fail_json("multiple found", reads)
            ELSE LET found == IF Has(p, "id") THEN byid
                              ELSE IF truthy_name /\ Len(matches) = 1 THEN matches
                              ELSE <<>>
                 IN  IF found = <<>> THEN exit_json(FALSE, "nothing to delete", reads, NoRet)
                     ELSE Delete(inv, reads, Call("delete", found[1].id, [force |-> FALSE]))
        ELSE IF ~Has(p, "id") /\ ~truthy_name THEN fail_json("must provide id or name", reads)
        ELSE IF ~Has(p, "id") /\ Len(matches) > 1 THEN fail_json("multiple found", reads)
        ELSE LET found == IF Has(p, "id") THEN byid
                          ELSE IF Len(matches) = 1 THEN matches ELSE <<>>
             IN  IF found /= <<>> THEN
                     LET existing == found[1]
                         updates == TargetUpdates(p, existing)
                     IN  IF /\ Has(p, "groups")
                            /\ \/ normalize_groups_raises(
                                    IF Has(existing, "groups") THEN existing.groups ELSE <<>>)
                               \/ normalize_groups_raises(p.groups)
                         THEN raise_TypeError(reads)
                         ELSE IF updates = EmptyDict
                         THEN exit_json(FALSE, "no changes needed", reads,
                                        RetExisting(existing))
                         ELSE CheckOrMutate(inv, "would update", reads, Call("update", existing.id, updates),
                                     "updated", "error updating", RetCall)
                 ELSE IF ~truthy_name THEN fail_json("name is required", reads)
                 ELSE CheckOrMutate(inv, "would create", reads,
                             Call("create", NoId,
                                  Restrict(p, TargetScalarFields \cup {"groups"})),
                             "created", "error creating", RetCall)

(***************************************************************************)
(* user.py                                                                 *)
(* A group given as an integer is [int |-> n], one given as a name is      *)
(* [str |-> name].                                                         *)
(***************************************************************************)
GInt(n) == [int |-> n]
GStr(name) == [str |-> name]

\* argument_spec: delete_group defaults to False, ignore_on_update to []
UserArgDefaults == [delete_group |-> FALSE, ignore_on_update |-> {}]

GroupQuery(name) == Call("group.query", NoId, [group |-> name])

\* lookup_group_id(group_val): [ok, id, calls]; ok is FALSE where it calls fail_json
lookup_group_id(group_val, env, grouptab) ==
    IF Has(group_val, "int") THEN [ok |-> TRUE, id |-> group_val.int, calls |-> <<>>]
    ELSE LET gr == SelectSeq(grouptab, LAMBDA g : g.group = group_val.str)
         IN  IF env \in {"qfail", "gfail"} \/ gr = <<>>
             THEN [ok |-> FALSE, id |-> NoId, calls |-> <<GroupQuery(group_val.str)>>]
             ELSE [ok |-> TRUE, id |-> gr[1].id, calls |-> <<GroupQuery(group_val.str)>>]

\* [lookup_group_id(g) for g in lst], up to and including the first failing lookup
RECURSIVE lookup_group_ids(_, _, _)
lookup_group_ids(lst, env, grouptab) ==
    IF lst = <<>> THEN [ok |-> TRUE, ids |-> <<>>, calls |-> <<>>]
    ELSE LET h == lookup_group_id(Head(lst), env, grouptab)
         IN  IF ~h.ok THEN [ok |-> FALSE, ids |-> <<>>, calls |-> h.calls]
             ELSE LET r == lookup_group_ids(Tail(lst), env, grouptab)
                  IN  [ok |-> r.ok, ids |-> <<h.id>> \o r.ids, calls |-> h.calls \o r.calls]

query_user_by_id(user_id, tab) ==
    LET users == SelectSeq(tab, LAMBDA u : u.id = user_id)
    IN  IF users = <<>> THEN <<>> ELSE <<users[1]>>

query_user_by_name(name, tab) ==
    LET users == SelectSeq(tab, LAMBDA u : u.username = name)
    IN  IF users = <<>> THEN <<>> ELSE <<users[1]>>

\* the fields maybe_set is called on
UserScalarFields ==
    { "uid", "username", "home", "home_mode", "shell", "full_name", "email",
      "password", "password_disabled", "locked", "microsoft_account", "smb",
      "sudo", "sudo_nopasswd", "sshpubkey" }

\* the fields copied as they are into the create payload
UserCreateFields ==
    { "username", "uid", "group_create", "password", "password_disabled",
      "full_name", "home", "home_mode", "shell", "email", "locked",
      "microsoft_account", "smb", "sudo", "sudo_nopasswd", "sshpubkey",
      "attributes", "sudo_commands" }

\* maybe_set(field) for every field: the fields that end up in updates
maybe_set(p, user_record) ==
    [k \in {f \in UserScalarFields :
                /\ f \notin p.ignore_on_update
                /\ Has(p, f)
                /\ GetDiffers(user_record, f, p[f])}
        |-> p[k]]

RECURSIVE InsertStr(_, _)
InsertStr(x, s) ==
    IF s = <<>> THEN <<x>>
    ELSE IF StrRank(Head(s)) < StrRank(x) THEN <<Head(s)>> \o InsertStr(x, Tail(s))
    ELSE <<x>> \o s

\* sorted(list of str)
RECURSIVE SortStrs(_)
SortStrs(s) == IF s = <<>> THEN <<>> ELSE InsertStr(Head(s), SortStrs(Tail(s)))

\* user_record.get(k) or []
GetOrEmpty(d, k) == IF Has(d, k) THEN d[k] ELSE <<>>

UserCreate(inv, p, reads, grouptab) ==
    LET takes_group == Has(p, "group_create") /\ p.group_create = FALSE /\ Has(p, "group")
        g == IF takes_group THEN lookup_group_id(p.group, inv.env, grouptab)
             ELSE [ok |-> TRUE, id |-> NoId, calls |-> <<>>]
        gs == IF Has(p, "groups") THEN lookup_group_ids(p.groups, inv.env, grouptab)
              ELSE [ok |-> TRUE, ids |-> <<>>, calls |-> <<>>]
        payload == Restrict(p, UserCreateFields)
                   @@ (IF takes_group THEN "group" :> g.id ELSE EmptyDict)
                   @@ (IF Has(p, "groups") THEN "groups" :> gs.ids ELSE EmptyDict)
    IN  IF ~g.ok THEN fail_json("group lookup failed", reads \o g.calls)
        ELSE IF ~gs.ok THEN fail_json("group lookup failed", reads \o g.calls \o gs.calls)
        ELSE CheckOrMutate(inv, "would create", reads \o g.calls \o gs.calls, Call("create", NoId, payload),
                    "created", "error creating", RetCall)

UserUpdate(inv, p, reads, user_record, grouptab) ==
    LET ign == p.ignore_on_update
        does_group == "group" \notin ign /\ Has(p, "group")
        g == IF does_group THEN lookup_group_id(p.group, inv.env, grouptab)
             ELSE [ok |-> TRUE, id |-> NoId, calls |-> <<>>]
        does_cmds == "sudo_commands" \notin ign /\ Has(p, "sudo_commands")
        does_groups == "groups" \notin ign /\ Has(p, "groups")
        gs == IF g.ok /\ does_groups THEN lookup_group_ids(p.groups, inv.env, grouptab)
              ELSE [ok |-> TRUE, ids |-> <<>>, calls |-> <<>>]
        does_attr == "attributes" \notin ign /\ Has(p, "attributes")
        updates ==
            maybe_set(p, user_record)
            @@ (IF does_group /\ GetDiffers(user_record, "group", g.id)
                THEN "group" :> g.id ELSE EmptyDict)
            @@ (IF does_cmds /\ SortStrs(GetOrEmpty(user_record, "sudo_commands"))
                                 /= SortStrs(p.sudo_commands)
                THEN "sudo_commands" :> p.sudo_commands ELSE EmptyDict)
            @@ (IF does_groups /\ ToSet(GetOrEmpty(user_record, "groups")) /= ToSet(gs.ids)
                THEN "groups" :> gs.ids ELSE EmptyDict)
            @@ (IF does_attr /\ GetOrEmpty(user_record, "attributes") /= p.attributes
                THEN "attributes" :> p.attributes ELSE EmptyDict)
        allreads == reads \o g.calls \o gs.calls
    IN  IF ~g.ok \/ ~gs.ok THEN fail_json("group lookup failed", allreads)
        ELSE IF updates = EmptyDict THEN exit_json(FALSE, "no changes needed", allreads, NoRet)
        ELSE CheckOrMutate(inv, "would update", allreads, Call("update", user_record.id, updates),
                    "updated", "error updating", RetCall)

UserMain(inv, tab, grouptab) ==
    LET p == inv.p @@ UserArgDefaults
        byid == Has(p, "id")
        byname == ~byid /\ Truthy(p, "username")
        reads == IF byid THEN <<Call("query", p.id, EmptyDict)>>
                 ELSE IF byname THEN <<Call("query", NoId, [username |-> p.username])>>
                 ELSE <<>>
        found == IF byid THEN query_user_by_id(p.id, tab)
                 ELSE IF byname THEN query_user_by_name(p.username, tab)
                 ELSE <<>>
        is_new == found = <<>>
    IN  IF (byid \/ byname) /\ inv.env = "qfail" THEN fail_json("error querying", reads)
        ELSE IF inv.state = "absent" THEN
            IF found = <<>> THEN exit_json(FALSE, "nothing to delete", reads, NoRet)
            ELSE Delete(inv, reads, Call("delete", found[1].id, [delete_group |-> p.delete_group]))
        ELSE IF Has(p, "password_disabled") /\ p.password_disabled = FALSE
                /\ ~Truthy(p, "password")
            THEN fail_json("password is required", reads)
        ELSE IF is_new /\ ~Truthy(p, "username") THEN fail_json("username is required", reads)
        ELSE IF is_new /\ Has(p, "group_create") /\ p.group_create = FALSE
                /\ ~Has(p, "group")
            THEN fail_json("group is required", reads)
        ELSE IF is_new THEN UserCreate(inv, p, reads, grouptab)
        ELSE UserUpdate(inv, p, reads, found[1], grouptab)

(***************************************************************************)
(* nfs.py: the singleton NFS configuration                                 *)
(***************************************************************************)
\* <<parameter, key of nfs.config and of the patch, compared as a set>>
NfsFieldTable ==
    << <<"servers", "servers", FALSE>>,
       <<"udp", "udp", FALSE>>,
       <<"allow_nonroot", "allow_nonroot", FALSE>>,
       <<"nfsv4", "v4", FALSE>>,
       <<"v3owner", "v4_v3owner", FALSE>>,
       <<"krb", "v4_krb", FALSE>>,
       <<"domain", "v4_domain", FALSE>>,
       <<"bindip", "bindip", TRUE>>,
       <<"mountd_port", "mountd_port", FALSE>>,
       <<"rpcstatd_port", "rpcstatd_port", FALSE>>,
       <<"rpclockd_port", "rpclockd_port", FALSE>>,
       <<"userd_manage_gids", "userd_manage_gids", FALSE>> >>

\* the bool fields are compared with "is not", which on bool values is "!="
NfsArg(p, nfs_info) ==
    LET changed == {i \in DOMAIN NfsFieldTable :
                        LET f == NfsFieldTable[i]
                        IN  /\ Has(p, f[1])
                            /\ IF f[3] THEN ToSet(p[f[1]]) /= ToSet(nfs_info[f[2]])
                               ELSE nfs_info[f[2]] /= p[f[1]]}
    IN  [k \in {NfsFieldTable[i][2] : i \in changed} |->
            p[(CHOOSE f \in {NfsFieldTable[i] : i \in changed} : f[2] = k)[1]]]

NfsMain(inv, tab) ==
    LET p == inv.p
        reads == <<Call("query", NoId, EmptyDict)>>
        arg == NfsArg(p, tab[1])
    IN  IF inv.env = "qfail" THEN fail_json("error looking up", reads)
        ELSE IF arg = EmptyDict THEN exit_json(FALSE, "", reads, NoRet)
        ELSE CheckOrMutate(inv, "would update", reads, Call("update", NoId, arg), "", "error updating", NoRet)

(***************************************************************************)
(* iscsi_global.py: the singleton global iSCSI configuration               *)
(***************************************************************************)
\* argument_spec: isns_servers=dict(type="list", elements="str", default=[])
GlobalArgDefaults == [isns_servers |-> <<>>]

GlobalFields == {"basename", "isns_servers", "pool_avail_threshold", "alua"}

GlobalUpdates(params, current) ==
    [k \in {f \in GlobalFields : Has(params, f) /\ GetDiffers(current, f, params[f])}
        |-> params[k]]

GlobalMain(inv, tab) ==
    LET params == inv.p @@ GlobalArgDefaults
        reads == <<Call("query", NoId, EmptyDict)>>
        current == tab[1]
        updates == GlobalUpdates(params, current)
    IN  IF inv.env = "qfail" THEN fail_json("error querying", reads)
        ELSE IF inv.state = "query" THEN exit_json(FALSE, "", reads, RetExisting(current))
        ELSE IF updates = EmptyDict
            THEN exit_json(FALSE, "no changes needed", reads, RetExisting(current))
        ELSE CheckOrMutate(inv, "would update", reads, Call("update", NoId, updates),
                    "updated", "error updating", RetCall)

(***************************************************************************)
(* truenas_query.py                                                        *)
(* A filter is a <<field, "=", value>> triple; the filters are conjunctive.*)
(***************************************************************************)
\* argument_spec: filters defaults to [] (params={} is passed on untouched)
QueryArgDefaults == [filters |-> <<>>]

Matches(r, filters) ==
    \A i \in DOMAIN filters : Has(r, filters[i][1]) /\ r[filters[i][1]] = filters[i][3]

QueryMain(inv, tab) ==
    LET p == inv.p @@ QueryArgDefaults
        reads == <<Call("query", NoId, [filters |-> p.filters])>>
    IN  IF inv.check THEN exit_json(FALSE, "", <<>>, RetList(<<>>))
        ELSE IF inv.env = "qfail" THEN fail_json("failed to call", reads)
        ELSE exit_json(FALSE, "", reads,
                       RetList(SelectSeq(tab, LAMBDA r : Matches(r, p.filters))))

(***************************************************************************)
(* The remote tables before the run, and the parameters of the run.        *)
(***************************************************************************)
\* the records of a table carry the ids 1, 2, ... in query order
WithIds(s) == [i \in DOMAIN s |-> ("id" :> i) @@ s[i]]

Tables(shapes) == {WithIds(s) : s \in SeqsUpTo(shapes, MaxRecords)}

Runs(states, P) == [state : states, check : BOOLEAN, env : Envs, p : P]

\* characters of a name
N_e1 == <<"e", "1">>
N_e2 == <<"e", "2">>
N_e1_padded == <<" ", "e", "1", " ">>
N_e1_trailing == <<"e", "1", " ">>
N_blank == <<" ">>

\* listen elements
L_a == << <<"ip", "0.0.0.0">>, <<"port", 3260>> >>
L_a_other_port == << <<"port", 9999>>, <<"ip", "0.0.0.0">> >>
L_a_no_port == << <<"ip", "0.0.0.0">> >>
L_b == << <<"ip", "::">>, <<"port", 3260>> >>
L_b_flipped == << <<"port", 3260>>, <<"ip", "::">> >>
L_only_port == << <<"port", 3260>> >>

PortalShapes ==
    { [comment |-> "a", discovery_authmethod |-> "NONE", listen |-> <<L_a>>],
      [comment |-> "b", discovery_authmethod |-> "NONE", listen |-> <<L_a, L_b>>] }

PortalParams ==
    Cross(Opt("id", Ids),
    Cross(Opt("comment", {"a", "b"}),
          Opt("listen", {<<>>, <<L_a_other_port>>, <<L_b, L_a_no_port>>, <<L_b>>})))

PortalRuns == Runs({"absent", "present"}, PortalParams)

InitiatorShapes ==
    { [initiators |-> <<"iqn.a">>, auth_network |-> <<>>, comment |-> ""],
      [initiators |-> <<"iqn.a", "iqn.b">>, auth_network |-> <<"10.0.0.0/24">>,
       comment |-> "a"] }

InitiatorParams ==
    Cross(Opt("id", Ids),
    Cross(Opt("initiators", {<<"iqn.a">>, <<"iqn.b", "iqn.a">>, <<"iqn.a", "iqn.a">>}),
    Cross(Opt("auth_network", {<<"10.0.0.0/24">>}),
          Opt("comment", {"a"}))))

InitiatorRuns == Runs({"absent", "present", "query"}, InitiatorParams)

Secret12 == "secret-12-ab"
Secret16 == "secret-16-abcdef"
Secret17 == "secret-17-abcdefg"
Peer13 == "peer-13-abcde"

AuthShapes ==
    { [tag |-> 1, user |-> "u", secret |-> Secret12, peeruser |-> "", peersecret |-> ""],
      [tag |-> 2, user |-> "v", secret |-> Secret16, peeruser |-> "pu",
       peersecret |-> Peer13] }

AuthParams ==
    Cross(Opt("id", Ids),
    Cross(Opt("tag", {1}),
    Cross(Opt("user", {"u"}),
    Cross(Opt("secret", {"", "short", Secret12, Secret17}),
          Opt("peersecret", {"", Secret12, Peer13})))))

AuthRuns == Runs({"absent", "present", "query"}, AuthParams)

TargetExtentShapes ==
    { [target |-> 1, extent |-> 1, lunid |-> 0],
      [target |-> 2, extent |-> 1, lunid |-> 1] }

TargetExtentParams ==
    Cross(Opt("id", Ids),
    Cross(Opt("target", {1, 2}),
    Cross(Opt("extent", {1}),
          Opt("lunid", {0, 1}))))

TargetExtentRuns == Runs({"absent", "present"}, TargetExtentParams)

ExtentShapes ==
    { [name |-> N_e1, type |-> "DISK", comment |-> "a"],
      [name |-> N_e1_trailing, type |-> "DISK", comment |-> ""],
      [name |-> N_e2, type |-> "FILE", comment |-> "a"] }

ExtentParams ==
    Cross(Opt("id", Ids),
    Cross(Opt("name", {N_e1, N_e2, N_e1_padded, N_blank, <<>>}),
    Cross(Opt("type", {"DISK"}),
          Opt("comment", {"a"}))))

ExtentRuns == Runs({"absent", "present"}, ExtentParams)

G_full == << <<"portal", 1>>, <<"initiator", 2>>, <<"authmethod", "CHAP">>, <<"auth", 3>> >>
G_full_reordered ==
    << <<"auth", 3>>, <<"authmethod", "CHAP">>, <<"initiator", 2>>, <<"portal", 1>> >>
G_other == << <<"portal", 2>>, <<"initiator", 2>>, <<"authmethod", "NONE">>, <<"auth", 3>> >>
\* a group whose auth was left out
G_no_auth ==
    << <<"portal", 2>>, <<"initiator", 2>>, <<"authmethod", "NONE">>, <<"auth", NoneVal("auth")>> >>

N_t1 == <<"t", "1">>
N_t2 == <<"t", "2">>
N_t1_padded == <<" ", "t", "1">>

TargetShapes ==
    { [name |-> N_t1, alias |-> "a", mode |-> "ISCSI", groups |-> <<G_full, G_other>>],
      [name |-> N_t2, alias |-> "", mode |-> "ISCSI", groups |-> <<>>],
      [name |-> N_t2, alias |-> "b", mode |-> "ISCSI", groups |-> <<G_no_auth>>] }

TargetParams ==
    Cross(Opt("id", Ids),
    Cross(Opt("name", {N_t1, N_t2, N_t1_padded, <<>>}),
    Cross(Opt("alias", {"a"}),
          Opt("groups", {<<G_other, G_full_reordered>>, <<G_full>>, <<G_no_auth>>,
                          <<G_no_auth, G_full>>, <<>>}))))

TargetRuns == Runs({"absent", "present"}, TargetParams)

UserShapes ==
    { [username |-> "alice", uid |-> 1000, group |-> 10, groups |-> <<10, 20>>,
       full_name |-> "A", sudo_commands |-> <<"/bin/cat", "/bin/ls">>],
      [username |-> "bob", uid |-> 1001, group |-> 20, groups |-> <<>>,
       full_name |-> "B", sudo_commands |-> <<>>] }

\* group tables: one with unique names, one where two groups are named "wheel"
GroupTables ==
    { << [id |-> 10, group |-> "wheel"], [id |-> 20, group |-> "staff"] >>,
      << [id |-> 10, group |-> "wheel"], [id |-> 20, group |-> "staff"],
         [id |-> 30, group |-> "wheel"] >> }

UserOptionalParams ==
    LET all ==
        Cross(Opt("group", {GInt(20), GStr("wheel"), GStr("nogroup")}),
        Cross(Opt("group_create", {TRUE, FALSE}),
        Cross(Opt("password_disabled", {FALSE}),
        Cross(Opt("password", {"pw"}),
        Cross(Opt("full_name", {"A", "B"}),
        Cross(Opt("groups", {<<GInt(20), GInt(10)>>, <<GInt(10), GInt(20), GInt(10)>>,
                             <<GStr("wheel")>>}),
              Opt("sudo_commands", {<<"/bin/ls", "/bin/cat">>, <<"/bin/ls">>})))))))
    IN  {q \in all : Cardinality(DOMAIN q) <= MaxSupplied}

UserParams ==
    Cross(Opt("id", 1 .. MaxRecords),
    Cross(Opt("username", {"alice", "carol"}),
    Cross(Opt("ignore_on_update",
              {{"full_name"}, {"group", "groups", "sudo_commands", "username"}}),
          UserOptionalParams)))

\* state=absent reads id and username only
UserAbsentParams == Cross(Opt("id", 1 .. MaxRecords), Opt("username", {"alice", "carol"}))

\* group or groups holds a name, which lookup_group_id queries
NamesAGroup(p) ==
    \/ Has(p, "group") /\ Has(p.group, "str")
    \/ Has(p, "groups") /\ \E i \in DOMAIN p.groups : Has(p.groups[i], "str")

\* group.query can raise only in a run that calls it: state=present with a
\* group given by name
UserRuns ==
    [state : {"present"}, check : BOOLEAN, env : Envs, p : UserParams]
        \cup [state : {"present"}, check : BOOLEAN, env : {"gfail"},
              p : {p \in UserParams : NamesAGroup(p)}]
        \cup [state : {"absent"}, check : BOOLEAN, env : Envs, p : UserAbsentParams]

NfsConfigs ==
    { [id |-> 1, servers |-> 4, udp |-> FALSE, allow_nonroot |-> FALSE, v4 |-> FALSE,
       v4_v3owner |-> FALSE, v4_krb |-> FALSE, v4_domain |-> "", bindip |-> <<>>,
       mountd_port |-> 0, rpcstatd_port |-> 0, rpclockd_port |-> 0,
       userd_manage_gids |-> FALSE],
      [id |-> 1, servers |-> 8, udp |-> TRUE, allow_nonroot |-> FALSE, v4 |-> TRUE,
       v4_v3owner |-> FALSE, v4_krb |-> FALSE, v4_domain |-> "example.org",
       bindip |-> <<"10.0.0.1", "10.0.0.2">>,
       mountd_port |-> 618, rpcstatd_port |-> 0, rpclockd_port |-> 0,
       userd_manage_gids |-> FALSE] }

NfsParams ==
    Cross(Opt("servers", {4, 8}),
    Cross(Opt("udp", {TRUE, FALSE}),
    Cross(Opt("nfsv4", {TRUE}),
    Cross(Opt("domain", {"example.org"}),
          Opt("bindip", {<<>>, <<"10.0.0.2", "10.0.0.1">>,
                         <<"10.0.0.1", "10.0.0.1", "10.0.0.2">>, <<"10.0.0.1">>})))))

NfsRuns == Runs({"present"}, NfsParams)

GlobalConfigs ==
    { [id |-> 1, basename |-> "iqn.2005-10.org.freenas.ctl", isns_servers |-> <<>>,
       pool_avail_threshold |-> 0, alua |-> FALSE],
      [id |-> 1, basename |-> "iqn.2005-10.org.freenas.ctl",
       isns_servers |-> <<"10.0.0.1", "10.0.0.2">>,
       pool_avail_threshold |-> 0, alua |-> FALSE] }

GlobalParams ==
    Cross(Opt("basename", {"iqn.2005-10.org.freenas.ctl", "iqn.example"}),
    Cross(Opt("isns_servers", {<<>>, <<"10.0.0.1", "10.0.0.2">>, <<"10.0.0.2", "10.0.0.1">>}),
    Cross(Opt("pool_avail_threshold", {0, 80}),
          Opt("alua", {TRUE}))))

GlobalRuns == Runs({"query", "present"}, GlobalParams)

QueryParams ==
    Opt("filters", {<<>>, << <<"comment", "=", "a">> >>, << <<"comment", "=", "zzz">> >>})

QueryRuns == Runs({"query"}, QueryParams)

Modules ==
    { "iscsi_portal", "iscsi_initiator", "iscsi_auth", "iscsi_targetextent",
      "iscsi_extent", "iscsi_target", "user", "nfs", "iscsi_global", "truenas_query" }

InitTables(m) ==
    CASE m = "iscsi_portal" -> Tables(PortalShapes)
      [] m = "iscsi_initiator" -> Tables(InitiatorShapes)
      [] m = "iscsi_auth" -> Tables(AuthShapes)
      [] m = "iscsi_targetextent" -> Tables(TargetExtentShapes)
      [] m = "iscsi_extent" -> Tables(ExtentShapes)
      [] m = "iscsi_target" -> Tables(TargetShapes)
      [] m = "user" -> Tables(UserShapes)
      [] m = "nfs" -> {<<c>> : c \in NfsConfigs}
      [] m = "iscsi_global" -> {<<c>> : c \in GlobalConfigs}
      [] m = "truenas_query" -> Tables(PortalShapes)

\* what the remote stores for the keys a create payload leaves out
RemoteDefaults(m) ==
    CASE m = "iscsi_portal" -> [comment |-> "", discovery_authmethod |-> "NONE"]
      [] m = "iscsi_initiator" -> [initiators |-> <<>>, auth_network |-> <<>>, comment |-> ""]
      [] m = "iscsi_auth" -> [peeruser |-> "", peersecret |-> ""]
      [] m = "iscsi_targetextent" -> [lunid |-> 0]
      [] m = "iscsi_extent" -> [comment |-> ""]
      [] m = "iscsi_target" -> [alias |-> "", mode |-> "ISCSI", groups |-> <<>>]
      [] OTHER -> EmptyDict

Main(m, inv, tab, grouptab) ==
    CASE m = "iscsi_portal" -> PortalMain(inv, tab)
      [] m = "iscsi_initiator" -> InitiatorMain(inv, tab)
      [] m = "iscsi_auth" -> AuthMain(inv, tab)
      [] m = "iscsi_targetextent" -> TargetExtentMain(inv, tab)
      [] m = "iscsi_extent" -> ExtentMain(inv, tab)
      [] m = "iscsi_target" -> TargetMain(inv, tab)
      [] m = "user" -> UserMain(inv, tab, grouptab)
      [] m = "nfs" -> NfsMain(inv, tab)
      [] m = "iscsi_global" -> GlobalMain(inv, tab)
      [] m = "truenas_query" -> QueryMain(inv, tab)

(***************************************************************************)
(* The state machine.                                                      *)
(***************************************************************************)
NoRun == [kind |-> "none"]

Init ==
    /\ mod \in Modules
    /\ remote \in InitTables(mod)
    /\ groups \in (IF mod = "user" THEN GroupTables ELSE {<<>>})
    /\ last = NoRun

\* the effect of a run on the remote, and the record of the run
Step(kind, inv, out) ==
    /\ last' = [kind |-> kind, inv |-> inv, pre |-> remote, out |-> out]
    /\ remote' = IF inv.env = "mfail" THEN remote
                 ELSE ApplyCalls(remote, out.calls, RemoteDefaults(mod))
    /\ UNCHANGED <<mod, groups>>

iscsi_portal ==
    /\ mod = "iscsi_portal" /\ last.kind = "none"
    /\ \E inv \in PortalRuns : Step("first", inv, PortalMain(inv, remote))

iscsi_initiator ==
    /\ mod = "iscsi_initiator" /\ last.kind = "none"
    /\ \E inv \in InitiatorRuns : Step("first", inv, InitiatorMain(inv, remote))

iscsi_auth ==
    /\ mod = "iscsi_auth" /\ last.kind = "none"
    /\ \E inv \in AuthRuns : Step("first", inv, AuthMain(inv, remote))

iscsi_targetextent ==
    /\ mod = "iscsi_targetextent" /\ last.kind = "none"
    /\ \E inv \in TargetExtentRuns : Step("first", inv, TargetExtentMain(inv, remote))

iscsi_extent ==
    /\ mod = "iscsi_extent" /\ last.kind = "none"
    /\ \E inv \in ExtentRuns : Step("first", inv, ExtentMain(inv, remote))

iscsi_target ==
    /\ mod = "iscsi_target" /\ last.kind = "none"
    /\ \E inv \in TargetRuns : Step("first", inv, TargetMain(inv, remote))

user ==
    /\ mod = "user" /\ last.kind = "none"
    /\ \E inv \in UserRuns : Step("first", inv, UserMain(inv, remote, groups))

nfs ==
    /\ mod = "nfs" /\ last.kind = "none"
    /\ \E inv \in NfsRuns : Step("first", inv, NfsMain(inv, remote))

iscsi_global ==
    /\ mod = "iscsi_global" /\ last.kind = "none"
    /\ \E inv \in GlobalRuns : Step("first", inv, GlobalMain(inv, remote))

truenas_query ==
    /\ mod = "truenas_query" /\ last.kind = "none"
    /\ \E inv \in QueryRuns : Step("first", inv, QueryMain(inv, remote))

\* the same task is run a second time after a successful normal run
Repeat ==
    /\ last.kind = "first"
    /\ ~last.inv.check
    /\ ~last.out.failed
    /\ Step("repeat", last.inv, Main(mod, last.inv, remote, groups))

Next ==
    \/ iscsi_portal
    \/ iscsi_initiator
    \/ iscsi_auth
    \/ iscsi_targetextent
    \/ iscsi_extent
    \/ iscsi_target
    \/ user
    \/ nfs
    \/ iscsi_global
    \/ truenas_query
    \/ Repeat

Spec == Init /\ [][Next]_vars

(***************************************************************************)
(* Listen specification: one portal whose listen list is any list of at    *)
(* most MaxListen elements, updated by id with any such list.              *)
(***************************************************************************)
ListenElements ==
    {L_a, L_a_other_port, L_a_no_port, L_b, L_b_flipped, L_only_port, EmptyDict}

ListenLists == SeqsUpTo(ListenElements, MaxListen)

InitListen ==
    /\ mod = "iscsi_portal"
    /\ remote \in {<<[id |-> 1, comment |-> "a", discovery_authmethod |-> "NONE",
                       listen |-> l]>> : l \in ListenLists}
    /\ groups = <<>>
    /\ last = NoRun

iscsi_portal_listen ==
    /\ mod = "iscsi_portal" /\ last.kind = "none"
    /\ \E l \in ListenLists, c \in BOOLEAN :
          LET inv == [state |-> "present", check |-> c, env |-> "ok",
                      p |-> [id |-> 1, listen |-> l]]
          IN  Step("first", inv, PortalMain(inv, remote))

NextListen == iscsi_portal_listen

SpecListen == InitListen /\ [][NextListen]_vars

(***************************************************************************)
(* Race specification: two runs of iscsi_extent or of iscsi_target, by     *)
(* name, against one remote.  A run is two steps: the query that lists the *)
(* table (RaceRead), then the decision on the list it holds and the        *)
(* mutating call (RaceWrite).  Nothing orders the steps of the two runs.   *)
(* On an update or delete of an id it no longer holds the remote either    *)
(* raises or answers as if the record were there: both are explored.       *)
(***************************************************************************)
RaceProcs == {1, 2}

RaceNames(m) ==
    IF m = "iscsi_extent" THEN {N_e1, N_e2, N_e1_padded} ELSE {N_t1, N_t2, N_t1_padded}

RaceParams(m) ==
    IF m = "iscsi_extent"
    THEN Cross({"name" :> n : n \in RaceNames(m)},
         Cross(Opt("type", {"DISK"}), Opt("comment", {"a"})))
    ELSE Cross({"name" :> n : n \in RaceNames(m)}, Opt("alias", {"a"}))

RaceRuns(m) ==
    [state : {"present", "absent"}, check : {FALSE}, env : {"ok"}, p : RaceParams(m)]

InitRace ==
    /\ mod \in {"iscsi_extent", "iscsi_target"}
    /\ remote \in InitTables(mod)
    /\ groups = <<>>
    /\ last \in {[kind |-> "race", inv |-> <<a, b>>, pre |-> remote,
                   pc |-> <<"start", "start">>, snap |-> << <<>>, <<>> >>,
                   out |-> << <<>>, <<>> >>, gone |-> <<FALSE, FALSE>>,
                   log |-> <<>>] :
                        a \in RaceRuns(mod), b \in RaceRuns(mod)}

\* a run that would list the table again under a lock before it decides
DecideOn_fresh(snapshot, current) == current

\* the list a run decides on: all_extents / all_targets as the query returned it
DecideOn(snapshot, current) == snapshot

\* the run i, decided on the list it read, updates or deletes an id that the
\* remote no longer holds
RaceGone(i) ==
    LET plan == Main(mod, last.inv[i], DecideOn(last.snap[i], remote), groups)
    IN  \E j \in DOMAIN plan.calls :
            /\ plan.calls[j].op \in {"update", "delete"}
            /\ QueryById(remote, plan.calls[j].id) = <<>>

\* the outcome of the run i, decided on the list it read; raises says whether
\* the remote raises on the mutating call
RaceOutcome(i, raises) ==
    Main(mod, [last.inv[i] EXCEPT !.env = IF raises THEN "mfail" ELSE "ok"],
         DecideOn(last.snap[i], remote), groups)

\* all_extents = mw.call("iscsi.extent.query") / all_targets = mw.call("iscsi.target.query")
RaceRead ==
    \E i \in RaceProcs :
        /\ last.pc[i] = "start"
        /\ last' = [last EXCEPT !.pc[i] = "read", !.snap[i] = remote,
                                !.log = Append(@, <<i, "read">>)]
        /\ UNCHANGED <<mod, remote, groups>>

\* the rest of main(): lookup in the list, diff, and the mutating call
RaceWrite ==
    \E i \in RaceProcs :
        /\ last.pc[i] = "read"
        /\ \E raises \in (IF RaceGone(i) THEN BOOLEAN ELSE {FALSE}) :
              LET out == RaceOutcome(i, raises)
              IN  /\ last' = [last EXCEPT !.pc[i] = "done", !.out[i] = <<out>>,
                                          !.gone[i] = RaceGone(i),
                                          !.log = Append(@, <<i, "write">>)]
                  /\ remote' = IF out.failed THEN remote
                               ELSE ApplyCalls(remote, out.calls, RemoteDefaults(mod))
        /\ UNCHANGED <<mod, groups>>

NextRace ==
    \/ RaceRead
    \/ RaceWrite

SpecRace == InitRace /\ [][NextRace]_vars

(***************************************************************************)
(* Properties.                                                             *)
(***************************************************************************)
Ran == last.kind /= "none"

\* the create, update and delete calls of a run
MutCalls(out) == SelectSeq(out.calls, IsMutating)

\* the calls of a run that only read
ReadCalls(out) == SelectSeq(out.calls, LAMBDA c : ~IsMutating(c))

IdOnlyModules == {"iscsi_portal", "iscsi_initiator", "iscsi_auth", "iscsi_targetextent"}
NameKeyedModules == {"iscsi_extent", "iscsi_target", "user"}
AbsentModules == IdOnlyModules \cup NameKeyedModules

NaturalKey(m) == IF m = "user" THEN "username" ELSE "name"

\* the records of tab that carry the desired natural key, compared as the module
\* documents it (iscsi_extent: ignoring surrounding whitespace)
KeyMatches(m, p, tab) ==
    {i \in DOMAIN tab :
        /\ Has(tab[i], NaturalKey(m))
        /\ IF m = "iscsi_extent" THEN Strip(tab[i].name) = Strip(p.name)
           ELSE tab[i][NaturalKey(m)] = p[NaturalKey(m)]}

\* a non-empty natural key was supplied
KeyGiven(m, p) ==
    /\ Has(p, NaturalKey(m))
    /\ IF m = "user" THEN p.username /= ""
       ELSE IF m = "iscsi_extent" THEN Strip(p.name) /= <<>>
       ELSE p.name /= <<>>

\* C1: a second run of state=present with the same parameters, after a first
\* normal run that succeeded, reports changed=false and issues no create,
\* update or delete call
C1_Idempotence ==
    (last.kind = "repeat" /\ last.inv.state = "present")
        => (~last.out.failed /\ ~last.out.changed /\ MutCalls(last.out) = <<>>)

\* C2: iscsi_extent and iscsi_target, no id, two or more records carrying the
\* desired name: the run fails and issues no create, update or delete call
C2_AmbiguityIsFatal ==
    ( /\ Ran
      /\ mod \in {"iscsi_extent", "iscsi_target"}
      /\ ~Has(last.inv.p, "id")
      /\ KeyGiven(mod, last.inv.p)
      /\ Cardinality(KeyMatches(mod, last.inv.p, last.pre)) >= 2 )
        => (last.out.failed /\ MutCalls(last.out) = <<>> /\ remote = last.pre)

C2_Witness ==
    /\ Ran
    /\ mod = "iscsi_extent"
    /\ last.inv.state = "absent" /\ ~last.inv.check /\ last.inv.env = "ok"
    /\ ~Has(last.inv.p, "id")
    /\ KeyGiven(mod, last.inv.p)
    /\ Cardinality(KeyMatches(mod, last.inv.p, last.pre)) >= 2
    /\ last.out.failed /\ last.out.msg = "multiple found"

\* the names of the groups that a run looked up
LookedUpGroups(out) ==
    {out.calls[i].body.group : i \in {j \in DOMAIN out.calls : out.calls[j].op = "group.query"}}

\* C3: user module, a lookup by username or by group name that returns more
\* than one record makes the run fail
C3_UserLookupAmbiguityIsFatal ==
    ( /\ Ran
      /\ mod = "user"
      /\ last.inv.env = "ok"
      /\ \/ /\ ~Has(last.inv.p, "id")
            /\ KeyGiven(mod, last.inv.p)
            /\ Cardinality(KeyMatches(mod, last.inv.p, last.pre)) >= 2
         \/ \E g \in LookedUpGroups(last.out) :
                Cardinality({i \in DOMAIN groups : groups[i].group = g}) >= 2 )
        => last.out.failed

\* the record that the run addresses (by id, else by natural key) does not exist
AddressedIsMissing(m, p, tab) ==
    IF Has(p, "id") THEN \A i \in DOMAIN tab : tab[i].id /= p.id
    ELSE m \in NameKeyedModules /\ KeyGiven(m, p) /\ KeyMatches(m, p, tab) = {}

\* C4: state=absent on a record that does not exist ends successfully with
\* changed=false and without a delete call, in check mode and in normal mode
C4_AbsentOnMissingIsNoop ==
    ( /\ Ran
      /\ mod \in AbsentModules
      /\ last.inv.state = "absent"
      /\ last.inv.env /= "qfail"
      /\ AddressedIsMissing(mod, last.inv.p, last.pre) )
        => (~last.out.failed /\ ~last.out.changed /\ MutCalls(last.out) = <<>>)

\* C5: neither an id nor a natural key supplied: the run fails, for state=absent
\* (every module with state=absent) and for state=present (the name-keyed modules)
C5_NoIdentityIsUsageError ==
    ( /\ Ran
      /\ mod \in AbsentModules
      /\ ~Has(last.inv.p, "id")
      /\ mod \in NameKeyedModules => ~Has(last.inv.p, NaturalKey(mod))
      /\ \/ last.inv.state = "absent"
         \/ last.inv.state = "present" /\ mod \in NameKeyedModules )
        => last.out.failed

\* C6: a check-mode run issues no create, update or delete call and leaves the
\* remote state as it was
C6_CheckModeNeverMutates ==
    (Ran /\ last.inv.check) => (MutCalls(last.out) = <<>> /\ remote = last.pre)

C6_Witness ==
    /\ Ran
    /\ last.inv.check /\ last.inv.env = "ok"
    /\ last.out.changed /\ last.out.msg = "would update"
    /\ remote = last.pre

\* C7: a check-mode run performs the reads that the normal run performs, and
\* truenas_query in check mode returns the records the remote holds
C7_CheckModeStillReads ==
    (Ran /\ last.inv.check /\ last.inv.env = "ok")
        => /\ ReadCalls(last.out)
                = ReadCalls(Main(mod, [last.inv EXCEPT !.check = FALSE], last.pre, groups))
           /\ mod = "truenas_query" =>
                last.out.ret.val
                    = SelectSeq(last.pre,
                                LAMBDA r : Matches(r, (last.inv.p @@ QueryArgDefaults).filters))

\* the keys of the patch that correspond to the parameters the caller supplied
SuppliedKeys(m, p) ==
    IF m = "nfs"
    THEN {NfsFieldTable[i][2] : i \in {j \in DOMAIN NfsFieldTable : Has(p, NfsFieldTable[j][1])}}
    ELSE DOMAIN p

\* C8: the patch sent to update holds no field that the caller did not supply
C8_PartialFieldSafety ==
    Ran => \A i \in DOMAIN last.out.calls :
              last.out.calls[i].op = "update"
                => DOMAIN last.out.calls[i].body \subseteq SuppliedKeys(mod, last.inv.p)

\* the fields that the caller listed in ignore_on_update
Ignored(p) == IF Has(p, "ignore_on_update") THEN p.ignore_on_update ELSE {}

\* C9: user module, a field listed in ignore_on_update is never in the update
\* patch, and a supplied one is in the create payload
C9_IgnoreOnUpdate ==
    (Ran /\ mod = "user") =>
        \A i \in DOMAIN last.out.calls :
            /\ last.out.calls[i].op = "update"
                => DOMAIN last.out.calls[i].body \cap Ignored(last.inv.p) = {}
            /\ last.out.calls[i].op = "create"
                => (Ignored(last.inv.p) \cap DOMAIN last.inv.p)
                        \subseteq DOMAIN last.out.calls[i].body

\* the key/value pairs of a listen element other than port
ItemSet(item) == {item[i] : i \in {j \in DOMAIN item : item[j][1] /= "port"}}

\* the two lists hold the same elements the same number of times, whatever the
\* order of the elements, the order of the keys and the ports
SameListen(a, b) ==
    /\ Len(a) = Len(b)
    /\ \A i \in DOMAIN a :
          Cardinality({j \in DOMAIN a : ItemSet(a[j]) = ItemSet(a[i])})
            = Cardinality({j \in DOMAIN b : ItemSet(b[j]) = ItemSet(a[i])})

\* C10: iscsi_portal update by id: the patch has a listen entry exactly when the
\* desired list and the existing list differ in more than ports, element order
\* and key order
C10_ListenExclusion ==
    ( /\ Ran
      /\ mod = "iscsi_portal"
      /\ last.inv.state = "present" /\ last.inv.env = "ok"
      /\ Has(last.inv.p, "id") /\ Has(last.inv.p, "listen")
      /\ QueryById(last.pre, last.inv.p.id) /= <<>> )
        => LET existing == QueryById(last.pre, last.inv.p.id)[1]
               same == SameListen(existing.listen, last.inv.p.listen)
               patches == {last.out.calls[i].body :
                              i \in {j \in DOMAIN last.out.calls :
                                        last.out.calls[j].op = "update"}}
           IN  /\ same => \A u \in patches : ~Has(u, "listen")
               /\ (same /\ DOMAIN last.inv.p = {"id", "listen"}) => ~last.out.changed
               /\ ~same => last.out.changed
               /\ (~same /\ ~last.inv.check) => \E u \in patches : Has(u, "listen")

C10_Witness ==
    /\ Ran
    /\ mod = "iscsi_portal"
    /\ last.inv.state = "present" /\ ~last.inv.check
    /\ last.pre[1].listen = <<L_a, L_b>>
    /\ last.inv.p = [id |-> 1, listen |-> <<L_b_flipped, L_a_other_port>>]
    /\ ~last.out.changed /\ MutCalls(last.out) = <<>>


\* the record a present run addresses: by id when an id is given, else by the
\* natural key when exactly one record carries it; the singleton of nfs
Addressed(m, p, tab) ==
    IF m \in {"nfs", "iscsi_global"} THEN <<tab[1]>>
    ELSE IF Has(p, "id") THEN QueryById(tab, p.id)
    ELSE IF m \in NameKeyedModules /\ KeyGiven(m, p)
            /\ Cardinality(KeyMatches(m, p, tab)) = 1
         THEN <<tab[CHOOSE i \in KeyMatches(m, p, tab) : TRUE]>>
    ELSE <<>>

\* the set-valued parameters of a module
SetFields(m) ==
    CASE m = "iscsi_initiator" -> {"initiators", "auth_network"}
      [] m = "nfs" -> {"bindip"}
      [] m = "user" -> {"groups"}
      [] OTHER -> {}

\* the ids a list of user groups stands for: an integer for itself, a name for
\* the groups that carry it
GroupIdsOf(g) ==
    IF Has(g, "int") THEN {g.int}
    ELSE {groups[i].id : i \in {j \in DOMAIN groups : groups[j].group = g.str}}

\* the elements of the desired value of a set-valued parameter
DesiredElements(m, v) ==
    IF m = "user" THEN UNION {GroupIdsOf(v[i]) : i \in DOMAIN v}
    ELSE {v[i] : i \in DOMAIN v}

\* every element of the desired value stands for exactly one stored value
DesiredResolves(m, v) ==
    m = "user" => \A i \in DOMAIN v : Cardinality(GroupIdsOf(v[i])) = 1

\* the parameters other than those a run uses to find the record
NonLookupKeys(m, p) ==
    IF m = "user" /\ ~Has(p, "id") THEN DOMAIN p \ {"username", "ignore_on_update"}
    ELSE DOMAIN p \ {"id", "ignore_on_update"}

\* C11: a set-valued field (initiators, auth_network, bindip, user groups) whose
\* desired list has the elements of the existing list, in any order and with
\* duplicates, is not in the update patch; when it is the only field supplied
\* the run reports changed=false
C11_SetNormalization ==
    ( /\ Ran
      /\ mod \in {"iscsi_initiator", "nfs", "user"}
      /\ last.inv.state = "present" /\ last.inv.env = "ok"
      /\ Addressed(mod, last.inv.p, last.pre) /= <<>> )
        => LET p == last.inv.p
               e == Addressed(mod, p, last.pre)[1]
           IN  \A f \in SetFields(mod) :
                 ( /\ Has(p, f) /\ f \notin Ignored(p)
                   /\ DesiredResolves(mod, p[f])
                   /\ DesiredElements(mod, p[f]) = {e[f][i] : i \in DOMAIN e[f]} )
                    => /\ \A i \in DOMAIN last.out.calls :
                            last.out.calls[i].op = "update"
                                => ~Has(last.out.calls[i].body, f)
                       /\ NonLookupKeys(mod, p) = {f}
                            => (~last.out.failed /\ ~last.out.changed
                                /\ MutCalls(last.out) = <<>>)

C11_Witness ==
    /\ Ran
    /\ mod = "nfs"
    /\ last.inv.state = "present" /\ ~last.inv.check /\ last.inv.env = "ok"
    /\ last.pre[1].bindip = <<"10.0.0.1", "10.0.0.2">>
    /\ last.inv.p = [bindip |-> <<"10.0.0.1", "10.0.0.1", "10.0.0.2">>]
    /\ ~last.out.failed /\ ~last.out.changed /\ MutCalls(last.out) = <<>>


\* the key/value pairs of a group
GroupPairs(g) == {g[i] : i \in DOMAIN g}

\* the two lists hold the same groups the same number of times, whatever the
\* order of the groups and the order of the keys in a group
SameGroups(a, b) ==
    /\ Len(a) = Len(b)
    /\ \A i \in DOMAIN a :
          Cardinality({j \in DOMAIN a : GroupPairs(a[j]) = GroupPairs(a[i])})
            = Cardinality({j \in DOMAIN b : GroupPairs(b[j]) = GroupPairs(a[i])})

\* C12: iscsi_target update: a desired groups list that is the existing list up
\* to the order of the groups and of the keys puts no groups entry in the patch
\* (changed=false when groups is all that was supplied), and a list that differs
\* in a value or in the number of groups puts one in
C12_GroupsComparison ==
    ( /\ Ran
      /\ mod = "iscsi_target"
      /\ last.inv.state = "present" /\ last.inv.env = "ok"
      /\ Has(last.inv.p, "groups")
      /\ Addressed(mod, last.inv.p, last.pre) /= <<>> )
        => LET p == last.inv.p
               existing == Addressed(mod, p, last.pre)[1]
               same == SameGroups(existing.groups, p.groups)
               patches == {last.out.calls[i].body :
                              i \in {j \in DOMAIN last.out.calls :
                                        last.out.calls[j].op = "update"}}
           IN  /\ same => \A u \in patches : ~Has(u, "groups")
               /\ (same /\ NonLookupKeys(mod, p) = {"groups"})
                    => (~last.out.failed /\ ~last.out.changed)
               /\ ~same => (~last.out.failed /\ last.out.changed)
               /\ (~same /\ ~last.inv.check)
                    => \E u \in patches : Has(u, "groups") /\ u.groups = p.groups


\* the fields a module needs to create a record
CreateRequired(m) ==
    CASE m = "iscsi_auth" -> {"tag", "user", "secret"}
      [] m = "iscsi_targetextent" -> {"target", "extent"}
      [] m = "iscsi_extent" -> {"name", "type"}
      [] m = "iscsi_target" -> {"name"}
      [] m = "user" -> {"username"}
      [] OTHER -> {}

\* the lookup of a present run finds no record
NoneFound(m, p, tab) ==
    IF Has(p, "id") THEN QueryById(tab, p.id) = <<>>
    ELSE m \in NameKeyedModules => (KeyGiven(m, p) => KeyMatches(m, p, tab) = {})

\* C13: state=present, no existing record found and a create-required field not
\* supplied: the run fails and issues no create call, in check mode as well
C13_CreateValidation ==
    ( /\ Ran
      /\ mod \in {"iscsi_auth", "iscsi_targetextent", "iscsi_extent", "iscsi_target", "user"}
      /\ last.inv.state = "present"
      /\ NoneFound(mod, last.inv.p, last.pre)
      /\ \E f \in CreateRequired(mod) : ~Has(last.inv.p, f) )
        => (last.out.failed /\ ~last.out.changed /\ MutCalls(last.out) = <<>>)

C13_Witness ==
    /\ Ran
    /\ mod = "iscsi_auth"
    /\ last.inv.state = "present" /\ last.inv.check /\ last.inv.env = "ok"
    /\ DOMAIN last.inv.p = {"tag", "user"}
    /\ last.out.failed /\ last.out.msg = "tag, user, and secret are required"
    /\ MutCalls(last.out) = <<>>


\* the parameters that are not fields of the record
NonRecordKeys == {"id", "ignore_on_update", "delete_group", "remove", "force"}

\* the create payload carries the supplied value of field f: a user group as the
\* id it stands for, an extent name without its surrounding whitespace
CarriesSupplied(m, p, body, f) ==
    /\ Has(body, f)
    /\ IF m = "user" /\ f = "group" THEN body.group \in GroupIdsOf(p.group)
       ELSE IF m = "user" /\ f = "groups"
            THEN /\ Len(body.groups) = Len(p.groups)
                 /\ \A i \in DOMAIN p.groups : body.groups[i] \in GroupIdsOf(p.groups[i])
       ELSE IF m = "iscsi_extent" /\ f = "name" THEN body.name = Strip(p.name)
       ELSE body[f] = p[f]

\* C14: every field the caller supplied is in the payload sent to create, with
\* the supplied value; in particular the primary group of a user, whatever
\* group_create is
C14_CreatePayloadComplete ==
    Ran => \A i \in DOMAIN last.out.calls :
              last.out.calls[i].op = "create"
                => \A f \in DOMAIN last.inv.p \ NonRecordKeys :
                      CarriesSupplied(mod, last.inv.p, last.out.calls[i].body, f)


\* C15: iscsi_portal, state=present with an id that matches no portal: the run
\* fails with a not-found error and issues neither create nor update
C15_PortalIdNotFoundFails ==
    ( /\ Ran
      /\ mod = "iscsi_portal"
      /\ last.inv.state = "present"
      /\ Has(last.inv.p, "id")
      /\ QueryById(last.pre, last.inv.p.id) = <<>> )
        => /\ last.out.failed /\ ~last.out.changed
           /\ MutCalls(last.out) = <<>>
           /\ remote = last.pre
           /\ last.inv.env /= "qfail" => last.out.msg = "not found"

C15_Witness ==
    /\ Ran
    /\ mod = "iscsi_portal"
    /\ last.inv.state = "present" /\ ~last.inv.check /\ last.inv.env = "ok"
    /\ Len(last.pre) = 1
    /\ last.inv.p = [id |-> 2, comment |-> "b"]
    /\ last.out.failed /\ last.out.msg = "not found"
    /\ remote = last.pre


\* C16: iscsi_auth, iscsi_extent, iscsi_target, iscsi_targetextent and user,
\* state=present with an id that matches no record: the run fails and creates
\* no record
C16_IdNotFoundFails ==
    ( /\ Ran
      /\ mod \in {"iscsi_auth", "iscsi_extent", "iscsi_target", "iscsi_targetextent", "user"}
      /\ last.inv.state = "present"
      /\ Has(last.inv.p, "id")
      /\ QueryById(last.pre, last.inv.p.id) = <<>> )
        => /\ last.out.failed /\ ~last.out.changed
           /\ MutCalls(last.out) = <<>>
           /\ remote = last.pre


\* the records whose name, trimmed, is the desired name, trimmed
TrimmedMatches(p, tab) ==
    {i \in DOMAIN tab : Has(tab[i], "name") /\ Strip(tab[i].name) = Strip(p.name)}

\* C17: iscsi_extent and iscsi_target, lookup by name: a desired name and a
\* stored name that differ only in surrounding whitespace resolve to the same
\* record, which is updated or left alone, and nothing is created (the lookup
\* does not fail; the comparison of groups that follows it may)
C17_TrimmedNameLookup ==
    ( /\ Ran
      /\ mod \in {"iscsi_extent", "iscsi_target"}
      /\ last.inv.state = "present" /\ last.inv.env = "ok"
      /\ ~Has(last.inv.p, "id") /\ Has(last.inv.p, "name")
      /\ Strip(last.inv.p.name) /= <<>>
      /\ Cardinality(TrimmedMatches(last.inv.p, last.pre)) = 1 )
        => LET r == last.pre[CHOOSE i \in TrimmedMatches(last.inv.p, last.pre) : TRUE]
           IN  /\ last.out.failed => last.out.msg = "TypeError"
               /\ \A i \in DOMAIN last.out.calls :
                     /\ last.out.calls[i].op /= "create"
                     /\ last.out.calls[i].op = "update" => last.out.calls[i].id = r.id
               /\ Len(remote) = Len(last.pre)


\* C18: with an id supplied the record is selected by id alone: an update or a
\* delete addresses that id and an existing one, the name is not used to look
\* the record up, and a record that exists is not created again; no create
\* payload and no update patch holds the key id
C18_IdentifierFirst ==
    Ran =>
        /\ \A i \in DOMAIN last.out.calls :
              last.out.calls[i].op \in {"create", "update"}
                => ~Has(last.out.calls[i].body, "id")
        /\ Has(last.inv.p, "id") =>
              /\ \A i \in DOMAIN last.out.calls :
                    /\ last.out.calls[i].op \in {"update", "delete"}
                          => /\ last.out.calls[i].id = last.inv.p.id
                             /\ QueryById(last.pre, last.inv.p.id) /= <<>>
                    /\ last.out.calls[i].op = "query"
                          => ~Has(last.out.calls[i].body, "username")
              /\ last.out.msg /= "multiple found"
              /\ (last.inv.state = "present" /\ QueryById(last.pre, last.inv.p.id) /= <<>>)
                    => \A i \in DOMAIN last.out.calls : last.out.calls[i].op /= "create"

C18_Witness ==
    /\ Ran
    /\ mod = "iscsi_extent"
    /\ last.inv.state = "present" /\ ~last.inv.check /\ last.inv.env = "ok"
    /\ Has(last.inv.p, "id") /\ Has(last.inv.p, "name")
    /\ \E i \in KeyMatches(mod, last.inv.p, last.pre) : last.pre[i].id /= last.inv.p.id
    /\ \E i \in DOMAIN last.out.calls :
          /\ last.out.calls[i].op = "update"
          /\ last.out.calls[i].id = last.inv.p.id
          /\ Has(last.out.calls[i].body, "name")


\* the two secrets of an auth record
SecretFields == {"secret", "peersecret"}

\* C19: iscsi_auth: every secret and peersecret in a create payload or an update
\* patch is 12 to 16 characters long, and a supplied one that is not (the empty
\* string included) makes the run fail without a mutating call
C19_SecretLength ==
    (Ran /\ mod = "iscsi_auth" /\ last.inv.state = "present") =>
        /\ \A i \in DOMAIN last.out.calls :
              last.out.calls[i].op \in {"create", "update"}
                => \A f \in SecretFields :
                      Has(last.out.calls[i].body, f)
                        => /\ SecretMinLen <= Len(last.out.calls[i].body[f])
                           /\ Len(last.out.calls[i].body[f]) <= SecretMaxLen
        /\ (\E f \in SecretFields :
                /\ Has(last.inv.p, f)
                /\ ~(SecretMinLen <= Len(last.inv.p[f]) /\ Len(last.inv.p[f]) <= SecretMaxLen))
              => (last.out.failed /\ MutCalls(last.out) = <<>>)


\* C20: iscsi_auth: whatever present runs succeeded, no auth record holds a
\* peersecret equal to its secret
C20_PeerSecretDiffers ==
    mod = "iscsi_auth" =>
        \A i \in DOMAIN remote :
            (Has(remote[i], "peersecret") /\ remote[i].peersecret /= "")
                => remote[i].peersecret /= remote[i].secret


\* the positions of the calls of a run that raised
FailedCalls(inv, out) ==
    {i \in DOMAIN out.calls :
        \/ inv.env = "mfail" /\ IsMutating(out.calls[i])
        \/ inv.env = "qfail" /\ out.calls[i].op \in {"query", "group.query"}
        \/ inv.env = "gfail" /\ out.calls[i].op = "group.query"}

\* C21: a run issues at most one create, update or delete call, which is its
\* last call; a successful normal run that reports a change on an existing
\* record sent one update that holds the whole patch; a call that raised is the
\* last call of the run, the run fails and the remote keeps its state
C21_SingleMutatingCall ==
    Ran =>
        /\ Len(MutCalls(last.out)) <= 1
        /\ \A i \in DOMAIN last.out.calls :
              IsMutating(last.out.calls[i]) => i = Len(last.out.calls)
        /\ \A i \in DOMAIN last.out.calls :
              last.out.calls[i].op = "update" => last.out.calls[i].body /= EmptyDict
        /\ (~last.out.failed /\ last.out.changed /\ ~last.inv.check)
              => Len(MutCalls(last.out)) = 1
        /\ \A i \in FailedCalls(last.inv, last.out) :
              /\ i = Len(last.out.calls)
              /\ last.out.failed /\ ~last.out.changed
              /\ remote = last.pre

C21_Witness ==
    /\ Ran
    /\ mod = "user"
    /\ last.inv.state = "present" /\ ~last.inv.check /\ last.inv.env = "mfail"
    /\ Len(last.out.calls) = 3
    /\ last.out.calls[2].op = "group.query"
    /\ last.out.calls[3].op = "update"
    /\ Cardinality(DOMAIN last.out.calls[3].body) >= 2
    /\ last.out.failed /\ last.out.msg = "error updating"
    /\ remote = last.pre


\* both runs of the race have ended
RaceDone == last.kind = "race" /\ \A i \in RaceProcs : last.pc[i] = "done"

\* both runs listed the table before either of them decided and wrote
BothReadFirst == last.log[1][2] = "read" /\ last.log[2][2] = "read"

\* the two runs are state=present for one name, each with the fields a create needs
RaceSameName ==
    /\ \A i \in RaceProcs :
          /\ last.inv[i].state = "present"
          /\ ~MissingRequired(last.inv[i].p, CreateRequired(mod))
    /\ IF mod = "iscsi_extent"
       THEN Strip(last.inv[1].p.name) = Strip(last.inv[2].p.name)
       ELSE last.inv[1].p.name = last.inv[2].p.name

\* C22: two state=present runs by name of iscsi_extent or iscsi_target, for a
\* name that no record carries, that both list the table before either writes:
\* both succeed with a create call, and the remote ends with two records of
\* that name
C22_StaleReadCreatesTwice ==
    ( /\ RaceDone
      /\ BothReadFirst
      /\ RaceSameName
      /\ KeyMatches(mod, last.inv[1].p, last.pre) = {} )
        => /\ \A i \in RaceProcs :
                /\ ~last.out[i][1].failed /\ last.out[i][1].changed
                /\ Len(MutCalls(last.out[i][1])) = 1
                /\ MutCalls(last.out[i][1])[1].op = "create"
           /\ Cardinality(KeyMatches(mod, last.inv[1].p, remote)) = 2
           /\ Len(remote) = Len(last.pre) + 2

C22_Witness ==
    /\ RaceDone
    /\ BothReadFirst
    /\ RaceSameName
    /\ mod = "iscsi_extent"
    /\ last.inv[1].p.name = N_e1 /\ last.inv[2].p.name = N_e1_padded
    /\ Len(last.pre) = 1 /\ last.pre[1].name = N_e2
    /\ Len(remote) = 3
    /\ Strip(remote[2].name) = N_e1 /\ Strip(remote[3].name) = N_e1


\* the key of nfs.config that a parameter of the nfs module stands for
NfsKey(f) == (CHOOSE t \in {NfsFieldTable[i] : i \in DOMAIN NfsFieldTable} : t[1] = f)[2]

\* the parameters that say how to create or delete, not what the record holds
DirectiveKeys == NonRecordKeys \cup {"group_create"}

\* the record r holds the desired value of the supplied parameter f, up to the
\* comparison policy of the field
Converged(m, p, r, f) ==
    CASE m = "iscsi_portal" /\ f = "listen" -> SameListen(r.listen, p.listen)
      [] m = "iscsi_target" /\ f = "groups" -> SameGroups(r.groups, p.groups)
      [] m = "user" /\ f = "group" -> r.group \in GroupIdsOf(p.group)
      [] m = "user" /\ f = "groups" ->
            /\ ToSet(r.groups) \subseteq DesiredElements(m, p.groups)
            /\ \A i \in DOMAIN p.groups : GroupIdsOf(p.groups[i]) \cap ToSet(r.groups) /= {}
      [] m = "user" /\ f = "sudo_commands" -> ToSet(r.sudo_commands) = ToSet(p.sudo_commands)
      [] m = "nfs" /\ f = "bindip" -> ToSet(r.bindip) = ToSet(p.bindip)
      [] m = "nfs" /\ f /= "bindip" -> r[NfsKey(f)] = p[f]
      [] m = "iscsi_initiator" /\ f \in InitiatorSetFields -> ToSet(r[f]) = ToSet(p[f])
      [] OTHER -> Has(r, f) /\ r[f] = p[f]

\* C23: after a successful normal state=present run on an existing record, the
\* record holds the desired value of every supplied field that is not listed in
\* ignore_on_update, up to the comparison policy of the field
C23_Convergence ==
    ( /\ Ran
      /\ last.inv.state = "present" /\ ~last.inv.check
      /\ ~last.out.failed
      /\ Addressed(mod, last.inv.p, last.pre) /= <<>> )
        => LET p == last.inv.p
               id == Addressed(mod, p, last.pre)[1].id
               now == QueryById(remote, id)
           IN  /\ now /= <<>>
               /\ \A f \in DOMAIN p \ (DirectiveKeys \cup Ignored(p)) :
                     Converged(mod, p, now[1], f)

C23_Witness ==
    /\ Ran
    /\ mod = "iscsi_targetextent"
    /\ last.inv.state = "present" /\ ~last.inv.check /\ last.inv.env = "ok"
    /\ last.inv.p = [id |-> 1, target |-> 2, lunid |-> 1]
    /\ Len(last.pre) = 1
    /\ last.pre[1] = [id |-> 1, target |-> 1, extent |-> 1, lunid |-> 0]
    /\ ~last.out.failed /\ last.out.changed
    /\ remote[1] = [id |-> 1, target |-> 2, extent |-> 1, lunid |-> 1]


\* the list-valued fields that are compared in a normal form
NormalizedFields(m) ==
    CASE m = "iscsi_portal" -> {"listen"}
      [] m = "iscsi_initiator" -> {"initiators", "auth_network"}
      [] m = "nfs" -> {"bindip"}
      [] OTHER -> {}

\* C24: a listen, initiators, auth_network or bindip entry of an update patch
\* is the desired list as supplied (its order, its duplicates, its port keys),
\* and a desired listen list that differs from the existing one in more than
\* ports and order is in the patch of a normal run
C24_RawDesiredValue ==
    Ran =>
        /\ \A i \in DOMAIN last.out.calls :
              last.out.calls[i].op = "update"
                => \A f \in NormalizedFields(mod) \cap DOMAIN last.out.calls[i].body :
                      /\ Has(last.inv.p, f)
                      /\ last.out.calls[i].body[f] = last.inv.p[f]
        /\ ( /\ mod = "iscsi_portal"
             /\ last.inv.state = "present" /\ ~last.inv.check /\ last.inv.env /= "qfail"
             /\ Has(last.inv.p, "id") /\ Has(last.inv.p, "listen")
             /\ QueryById(last.pre, last.inv.p.id) /= <<>>
             /\ ~SameListen(QueryById(last.pre, last.inv.p.id)[1].listen, last.inv.p.listen) )
              => \E i \in DOMAIN last.out.calls :
                    /\ last.out.calls[i].op = "update"
                    /\ Has(last.out.calls[i].body, "listen")
                    /\ last.out.calls[i].body.listen = last.inv.p.listen

C24_Witness ==
    /\ Ran
    /\ mod = "iscsi_portal"
    /\ last.inv.state = "present" /\ ~last.inv.check /\ last.inv.env = "ok"
    /\ last.inv.p = [id |-> 1, listen |-> <<L_b, L_a_no_port>>]
    /\ Len(last.pre) >= 1
    /\ last.pre[1].listen = <<L_a>>
    /\ MutCalls(last.out) = <<Call("update", 1, [listen |-> <<L_b, L_a_no_port>>])>>
    /\ normalize_list_of_dicts(last.inv.p.listen) /= last.inv.p.listen


\* C25: the payload sent to create holds only fields that the caller supplied,
\* each with the supplied value; iscsi_portal created without listen sends a
\* payload without a listen key
C25_CreatePayloadOnlySupplied ==
    Ran => \A i \in DOMAIN last.out.calls :
              last.out.calls[i].op = "create"
                => /\ DOMAIN last.out.calls[i].body \subseteq DOMAIN last.inv.p
                   /\ \A f \in DOMAIN last.out.calls[i].body \cap DOMAIN last.inv.p :
                         CarriesSupplied(mod, last.inv.p, last.out.calls[i].body, f)
                   /\ (mod = "iscsi_portal" /\ ~Has(last.inv.p, "listen"))
                         => ~Has(last.out.calls[i].body, "listen")


\* the records that the query call q returned from the table tab
ReturnedBy(q, tab) ==
    IF q.id /= NoId THEN QueryById(tab, q.id)
    ELSE IF Has(q.body, "username")
         THEN SelectSeq(tab, LAMBDA u : u.username = q.body.username)
    ELSE tab

\* the query call q picks one record (by id, by username), it does not list the table
Targeted(q) == q.id /= NoId \/ Has(q.body, "username")

\* C26: an update or delete call comes after a query of the same run that
\* returned a record, and the id it is passed is the id of that record (of the
\* first record returned when the query was by id or by username; no id for the
\* singleton configurations)
C26_ReadPrecedesWrite ==
    Ran => \A i \in DOMAIN last.out.calls :
              last.out.calls[i].op \in {"update", "delete"}
                => \E j \in 1 .. (i - 1) :
                      /\ last.out.calls[j].op = "query"
                      /\ last.inv.env /= "qfail"
                      /\ LET rs == ReturnedBy(last.out.calls[j], last.pre)
                         IN  /\ rs /= <<>>
                             /\ IF mod \in {"nfs", "iscsi_global"}
                                THEN last.out.calls[i].id = NoId
                                ELSE IF Targeted(last.out.calls[j])
                                THEN rs[1].id = last.out.calls[i].id
                                ELSE \E k \in DOMAIN rs : rs[k].id = last.out.calls[i].id

C26_Witness ==
    /\ Ran
    /\ mod = "user"
    /\ last.inv.state = "absent" /\ ~last.inv.check /\ last.inv.env = "ok"
    /\ last.inv.p = [username |-> "alice"]
    /\ Len(last.pre) = 2
    /\ last.pre[1].username = "bob" /\ last.pre[2].username = "alice"
    /\ Len(last.out.calls) = 2
    /\ last.out.calls[1] = Call("query", NoId, [username |-> "alice"])
    /\ last.out.calls[2].op = "delete" /\ last.out.calls[2].id = 2
    /\ Len(remote) = 1


\* C27: a run that fails for another reason than a create, update or delete
\* call that raised (usage error, ambiguous identity, failed validation, failed
\* query, exception in a comparison) has issued no create, update or delete
\* call and leaves the remote as it was
C27_FailureBeforeMutation ==
    (Ran /\ last.out.failed)
        => /\ remote = last.pre
           /\ MutCalls(last.out) /= <<>>
                => /\ last.inv.env = "mfail"
                   /\ IsMutating(last.out.calls[Len(last.out.calls)])
                   /\ last.out.msg \in {"error creating", "error updating", "error deleting"}

C27_Witness ==
    /\ Ran
    /\ mod = "iscsi_auth"
    /\ last.inv.state = "present" /\ ~last.inv.check /\ last.inv.env = "ok"
    /\ last.inv.p = [id |-> 1, user |-> "u", secret |-> "short"]
    /\ Len(last.pre) = 1 /\ last.pre[1].user = "v"
    /\ last.out.failed /\ last.out.msg = "secret must be 12-16 characters"
    /\ MutCalls(last.out) = <<>>
    /\ remote = last.pre


\* the delete calls of a run
DeleteCalls(out) == SelectSeq(out.calls, LAMBDA c : c.op = "delete")

\* C28: state=absent: a run whose delete call raised fails and does not report
\* a change; a run whose delete call succeeded succeeds with changed=true, and
\* the record is gone
C28_DeleteOutcome ==
    (Ran /\ last.inv.state = "absent" /\ DeleteCalls(last.out) /= <<>>)
        => IF last.inv.env = "mfail"
           THEN last.out.failed /\ ~last.out.changed /\ remote = last.pre
           ELSE /\ ~last.out.failed /\ last.out.changed
                /\ QueryById(remote, DeleteCalls(last.out)[1].id) = <<>>
                /\ Len(remote) = Len(last.pre) - 1

C28_Witness ==
    /\ Ran
    /\ mod = "iscsi_targetextent"
    /\ last.inv.state = "absent" /\ ~last.inv.check /\ last.inv.env = "mfail"
    /\ last.inv.p = [id |-> 1]
    /\ DeleteCalls(last.out) = <<Call("delete", 1, [force |-> FALSE])>>
    /\ last.out.failed /\ ~last.out.changed /\ last.out.msg = "error deleting"
    /\ remote = last.pre


\* C29: a successful state=present run that reports changed=false (its patch
\* was empty) issued no mutating call and its result carries the existing
\* record as it was read; a normal run on an existing record that reports a
\* change sent a patch that is not empty
C29_NoOpCarriesExisting ==
    (Ran /\ last.inv.state = "present" /\ ~last.out.failed)
        => /\ ~last.out.changed
                => /\ MutCalls(last.out) = <<>>
                   /\ last.out.ret.kind = "existing"
                   /\ \E k \in DOMAIN last.pre : last.out.ret.val = <<last.pre[k]>>
                   /\ Addressed(mod, last.inv.p, last.pre) /= <<>>
                        => last.out.ret.val = Addressed(mod, last.inv.p, last.pre)
           /\ (last.out.changed /\ ~last.inv.check
                    /\ Addressed(mod, last.inv.p, last.pre) /= <<>>)
                => /\ Len(MutCalls(last.out)) = 1
                   /\ MutCalls(last.out)[1].op = "update"
                   /\ MutCalls(last.out)[1].body /= EmptyDict


\* the modules that have state=query
QueryStateModules == {"iscsi_auth", "iscsi_initiator", "iscsi_global"}

\* C30: a state=query run and a truenas_query run never report changed=true;
\* a state=query run issues no create, update or delete call and leaves the
\* remote as it was; iscsi_auth and iscsi_initiator with state=query fail when
\* no id is given and when no record has the id
C30_QueryIsReadOnly ==
    Ran =>
        /\ (mod = "truenas_query" \/ last.inv.state = "query") => ~last.out.changed
        /\ (mod \in QueryStateModules /\ last.inv.state = "query")
              => (MutCalls(last.out) = <<>> /\ remote = last.pre)
        /\ ( /\ mod \in {"iscsi_auth", "iscsi_initiator"}
             /\ last.inv.state = "query"
             /\ \/ ~Has(last.inv.p, "id")
                \/ QueryById(last.pre, last.inv.p.id) = <<>> )
              => (last.out.failed /\ last.out.ret = NoRet)

C30_Witness ==
    /\ Ran
    /\ mod = "iscsi_auth"
    /\ last.inv.state = "query" /\ ~last.inv.check /\ last.inv.env = "ok"
    /\ Has(last.inv.p, "id") /\ last.inv.p.id = 2
    /\ Len(last.pre) = 1
    /\ last.out.failed /\ last.out.msg = "not found"
    /\ last.out.calls = <<Call("query", 2, EmptyDict)>>
    /\ remote = last.pre


\* C31: a state=absent run whose record was deleted by the other run between
\* its query and its delete call ends without error
C31_AbsentUnderInterleaving ==
    RaceDone =>
        \A i \in RaceProcs :
            (last.inv[i].state = "absent" /\ last.gone[i]) => ~last.out[i][1].failed

\* the run of the same module with the same parameters from the same remote
\* state, outside check mode and with every remote call succeeding
NormalRun == Main(mod, [last.inv EXCEPT !.check = FALSE, !.env = "ok"],
                  last.pre, groups)

\* C32: the changed flag of a check-mode run equals the changed flag the same
\* run has outside check mode, from the same remote state, when its remote
\* calls succeed
C32_DryRunParity ==
    (Ran /\ last.inv.check /\ last.inv.env \in {"ok", "mfail"})
        => /\ last.out.changed = NormalRun.changed
           /\ last.out.failed = NormalRun.failed

C32_Witness ==
    /\ Ran /\ last.inv.check /\ last.inv.env = "ok"
    /\ mod = "nfs" /\ last.inv.state = "present"
    /\ last.out.changed /\ NormalRun.changed
    /\ MutCalls(NormalRun) /= <<>> /\ MutCalls(last.out) = <<>>

\* C33: a normal run that ends without failure reports changed=true exactly
\* when it issued one create, update or delete call (which then succeeded), and
\* otherwise issued none; after a run that reports changed=false the remote is
\* as it was before the run
C33_ChangedFlagAccurate ==
    (Ran /\ ~last.inv.check /\ ~last.out.failed)
        => /\ last.out.changed <=> Len(MutCalls(last.out)) = 1
           /\ ~last.out.changed => MutCalls(last.out) = <<>>
           /\ FailedCalls(last.inv, last.out) = {}
           /\ ~last.out.changed => remote = last.pre

C33_Witness ==
    /\ Ran /\ ~last.inv.check /\ ~last.out.failed
    /\ mod = "iscsi_initiator" /\ last.inv.state = "absent"
    /\ last.out.changed
    /\ Len(MutCalls(last.out)) = 1 /\ MutCalls(last.out)[1].op = "delete"
    /\ remote /= last.pre

\* no two records of the table carry the same name
UniqueNames(tab) == \A i, j \in DOMAIN tab : tab[i].name = tab[j].name => i = j

\* C34: a run of iscsi_extent or iscsi_target that starts from a table in
\* which no two records share a name leaves such a table, whatever id and
\* name it is given; by induction no sequence of runs, none overlapping
\* another, gives two records the same name
C34_SequentialNameUniqueness ==
    (Ran /\ mod \in {"iscsi_extent", "iscsi_target"} /\ UniqueNames(last.pre))
        => UniqueNames(remote)

\* the table before a repeated run is the one an identical first run has
\* left by creating its last record, with the trimmed name in the payload
CreatedByFirstRun ==
    /\ last.kind = "repeat" /\ Len(last.pre) >= 1
    /\ LET before == SubSeq(last.pre, 1, Len(last.pre) - 1)
           first == Main(mod, last.inv, before, groups)
       IN  /\ ~first.failed
           /\ Len(MutCalls(first)) = 1
           /\ MutCalls(first)[1].op = "create"
           /\ ApplyCalls(before, first.calls, RemoteDefaults(mod)) = last.pre

\* C35: iscsi_extent with state=present, no id and the name ' e1 ' creates
\* the extent under the trimmed name 'e1', and the same run made again finds
\* it, reports changed=false and issues no update
C35_PaddedNameIdempotent ==
    (/\ Ran /\ mod = "iscsi_extent" /\ last.inv.state = "present"
     /\ ~Has(last.inv.p, "id") /\ Has(last.inv.p, "name")
     /\ last.inv.p.name = N_e1_padded)
        => /\ \A i \in DOMAIN last.out.calls :
                 last.out.calls[i].op = "create" => last.out.calls[i].body.name = N_e1
           /\ CreatedByFirstRun
                 => (~last.out.failed /\ ~last.out.changed /\ MutCalls(last.out) = <<>>)

\* the records of tab named n
Named(tab, n) == {i \in DOMAIN tab : tab[i].name = n}

\* the run is given the name n and no id (iscsi_extent trims the name it is
\* given and the names it reads)
AddressesByName(m, p, n) ==
    /\ ~Has(p, "id") /\ Has(p, "name")
    /\ IF m = "iscsi_extent" THEN Strip(p.name) = Strip(n) /\ Strip(n) /= <<>>
       ELSE p.name = n /\ n /= <<>>

\* C36: when two iscsi_extent or iscsi_target records share a name, a run
\* given that name and no id, state present or absent, fails without a
\* create, update or delete call and leaves as many records of that name as
\* there were, so that no sequence of such runs repairs the table
C36_DuplicatesPersist ==
    (Ran /\ mod \in {"iscsi_extent", "iscsi_target"})
        => \A k \in DOMAIN last.pre :
              LET n == last.pre[k].name
              IN  (Cardinality(Named(last.pre, n)) >= 2
                      /\ AddressesByName(mod, last.inv.p, n))
                    => /\ last.out.failed
                       /\ MutCalls(last.out) = <<>>
                       /\ Named(remote, n) = Named(last.pre, n)
                       /\ remote = last.pre

C36_Witness ==
    /\ Ran /\ mod = "iscsi_target"
    /\ last.inv.state = "present" /\ ~last.inv.check /\ last.inv.env = "ok"
    /\ AddressesByName(mod, last.inv.p, N_t2)
    /\ Cardinality(Named(last.pre, N_t2)) = 2
    /\ last.out.failed /\ last.out.msg = "multiple found"
    /\ Cardinality(Named(remote, N_t2)) = 2

\* C37: every run ends in exit_json or fail_json, whatever groups lists an
\* iscsi_target and listen lists an iscsi_portal holds and is given: no run
\* ends with an error that main() does not handle
C37_NoUnhandledError ==
    Ran => last.out /= raise_TypeError(last.out.calls)

\* C38: a run given id=0 treats it as an id: it looks the record up, answers
\* state=absent with the no-op of a record that does not exist and state=query
\* with its not-found message, never with the error for a missing id, and
\* state=present of iscsi_initiator and iscsi_targetextent issues no create
C38_IdZeroIsAnId ==
    (Ran /\ Has(last.inv.p, "id") /\ last.inv.p.id = 0 /\ last.inv.env = "ok")
        => /\ last.out.calls /= <<>>
           /\ last.out.msg /= "id is required"
           /\ last.inv.state = "absent"
                 => (~last.out.failed /\ ~last.out.changed /\ MutCalls(last.out) = <<>>)
           /\ (last.inv.state = "present"
                  /\ mod \in {"iscsi_initiator", "iscsi_targetextent"})
                 => \A i \in DOMAIN last.out.calls : last.out.calls[i].op /= "create"

====
